---------------------------- MODULE Spec2Model ----------------------------
(***************************************************************************)
(* Execution & session tracking engine of ignition-mcp.                    *)
(*                                                                         *)
(*   TaskManager   (src/src/tasks/taskManager.ts)                          *)
(*     SpecTask, SpecAwait, SpecOutput                                     *)
(*   LaunchManager (src/src/launch/launchManager.ts)                       *)
(*     SpecDebug, SpecDebugOutput, SpecInspect                             *)
(*                                                                         *)
(* JavaScript values that may be undefined or null are tagged records      *)
(* (Undef, Null, Num(n)); strings are sequences of one-character strings.  *)
(* Time is Date.now() in milliseconds.                                     *)
(***************************************************************************)
EXTENDS Integers, Sequences, FiniteSets, TLC

\* ------------------------------------------------------------------ bounds
MaxExec == 2        \* executions started through runTask (SpecTask)
MaxSolo == 1        \* executions in SpecAwait and SpecOutput
MaxEmit == 3        \* characters one child process writes to stdout/stderr
MaxLimit == 2       \* largest per-task / per-launch outputLimit override
MaxTicks == 2       \* clock ticks (of one poll interval each)
MaxSessions == 2    \* debug sessions VS Code creates
MaxScopes == 1      \* scopes a stack frame reports
MaxBreakpoints == 3  \* breakpoints in vscode.debug.breakpoints
MaxServers == 2      \* MCPServer objects the extension creates

\* ------------------------------------------------------- program constants
DefaultOutputLimit == 20480
DefaultAwaitTimeout == 300000
PollInterval == 100

\* --------------------------------------------------------------- JS values
Undef == [tag |-> "undefined"]
Null == [tag |-> "null"]
Num(n) == [tag |-> "number", val |-> n]
Bool(b) == [tag |-> "boolean", val |-> b]

\* Map.set, Map.delete on functions used as Maps
Put(f, k, v) == [x \in DOMAIN f \cup {k} |-> IF x = k THEN v ELSE f[x]]
Del(f, k) == [x \in DOMAIN f \ {k} |-> f[x]]

\* ----------------------------------------------------------------- strings
Chars == {"a", "b"}
Chunks == {<<"a">>, <<"b">>, <<"a", "b">>}

RECURSIVE Join(_)
\* Array.prototype.join('') of an array of strings
Join(chunks) ==
  IF chunks = <<>> THEN <<>> ELSE Head(chunks) \o Join(Tail(chunks))

Slice(s, n) == IF n >= Len(s) THEN s ELSE SubSeq(s, 1, n)

DigitChar(d) == <<"0", "1", "2", "3", "4", "5", "6", "7", "8", "9">>[d + 1]

RECURSIVE Digits(_)
\* template-literal conversion of a non-negative integer
Digits(n) ==
  IF n < 10 THEN <<DigitChar(n)>>
  ELSE Digits(n \div 10) \o <<DigitChar(n % 10)>>

TruncPrefix ==
  <<"\n", "\n", "[", "O", "u", "t", "p", "u", "t", " ", "t", "r", "u", "n",
    "c", "a", "t", "e", "d", ":", " ", "s", "h", "o", "w", "i", "n", "g",
    " ", "f", "i", "r", "s", "t", " ">>
TruncOf == <<" ", "o", "f", " ">>
TruncSuffix == <<" ", "c", "h", "a", "r", "a", "c", "t", "e", "r", "s", "]">>

\* `\n\n[Output truncated: showing first ${limit} of ${length} characters]`
TruncationMsg(limit, length) ==
  TruncPrefix \o Digits(limit) \o TruncOf \o Digits(length) \o TruncSuffix

InteractivePlaceholder ==
  <<"[", "I", "n", "t", "e", "r", "a", "c", "t", "i", "v", "e", " ", "m",
    "o", "d", "e", ":", " ", "o", "u", "t", "p", "u", "t", " ", "n", "o",
    "t", " ", "c", "a", "p", "t", "u", "r", "e", "d", "]">>

\* `Error: ${err.message}\r\n` for a spawn error whose message is "x"
ErrMsg == <<"E", "r", "r", "o", "r", ":", " ", "x", "\r", "\n">>

\* --------------------------------------------------------------- task side
TaskNames == {"build", "test"}
UnknownTask == "nosuch"
ExecIds == 1..MaxExec
UnknownId == 0
ExitCodes == {0, 1}
LimitOptions == {Undef, Null} \cup {Num(n) : n \in 0..MaxLimit}
AwaitTimeouts == {Undef, Num(0), Num(PollInterval)}

\* vscode.TaskExecution objects: the one executeTask returned for an
\* execution, another reference VS Code may hand to a listener for the same
\* execution, and the execution object of a task nobody started via runTask
StoredObj(id) == id
AliasObj(id) == id + MaxExec
ForeignObj == 0

VARIABLES
  now,                      \* Date.now()
  configOutputLimit,        \* setting ignition-mcp.outputLimit
  executions,               \* TaskManager.executions
  outputs,                  \* TaskManager.outputs
  outputTruncated,          \* TaskManager.outputTruncated
  outputLimits,             \* TaskManager.outputLimits
  activeExecutions,         \* TaskManager.activeExecutions
  executionToId,            \* TaskManager.executionToId
  interactiveExecutionIds,  \* TaskManager.interactiveExecutionIds
  starting,                 \* runTask calls suspended at await executeTask
  proc,                     \* per execution: the task's process and pty
  ret,                      \* value returned by the last synchronous call
  awaiter,                  \* the awaitTask call in progress
  sessions,                 \* LaunchManager.sessions
  sessionOutputs,           \* LaunchManager.outputs
  outputLengths,            \* LaunchManager.outputLengths
  sessionOutputTruncated,   \* LaunchManager.outputTruncated
  sessionOutputLimits,      \* LaunchManager.outputLimits
  pendingOutputLimits,      \* LaunchManager.pendingOutputLimits
  pendingConsoleOverrides,  \* LaunchManager.pendingConsoleOverrides
  activeDebugSession,       \* vscode.debug.activeDebugSession
  adapter,                  \* per session: how far VS Code has brought it
  offered,                  \* per session: characters of output events
  startCall,                \* the startDebug call in progress
  inspect,                  \* the inspection call in progress
  requests,                 \* customRequests the inspection call has issued
  breakpoints,              \* vscode.debug.breakpoints
  received,                 \* the last message a debug adapter has sent
  mcpServer,                \* extension: let mcpServer
  serverState,              \* extension: let serverState
  servers,                  \* the MCPServer objects created so far
  shutdownImmediates,       \* setImmediate callbacks of handleShutdown
  activation,               \* how far VS Code has brought the extension
  restart                   \* the handleRestart call in progress

taskVars ==
  <<now, configOutputLimit, executions, outputs, outputTruncated,
    outputLimits, activeExecutions, executionToId, interactiveExecutionIds,
    starting, proc, ret, awaiter>>

debugVars ==
  <<sessions, sessionOutputs, outputLengths, sessionOutputTruncated,
    sessionOutputLimits, pendingOutputLimits, pendingConsoleOverrides,
    activeDebugSession, adapter, offered, startCall, inspect, requests>>

envVars == <<breakpoints, received>>

extVars ==
  <<mcpServer, serverState, servers, shutdownImmediates, activation, restart>>

vars == <<taskVars, debugVars, envVars, extVars>>

NoRet == [op |-> "none"]
Idle == [pc |-> "idle"]

\* ids runTask has handed to a caller
ReturnedIds ==
  {id \in DOMAIN executions : id \notin starting /\ proc[id].state # "none"}

\* config.get('outputLimit', 20480)
getDefaultOutputLimit == configOutputLimit

getOutputLimitForExecution(executionId) ==
  IF executionId \in DOMAIN outputLimits
  THEN outputLimits[executionId] ELSE getDefaultOutputLimit

\* truncateOutput: does it take the truncating branch, and what it returns
Truncates(output, executionId) ==
  LET limit == getOutputLimitForExecution(executionId)
  IN ~(limit = Null \/ Len(output) <= limit.val)

\* truncateOutput cutting one character late
truncateOutputLate(output, executionId) ==
  LET limit == getOutputLimitForExecution(executionId)
  IN IF limit = Null \/ Len(output) <= limit.val
     THEN output
     ELSE Slice(output, limit.val + 1)
            \o TruncationMsg(limit.val, Len(output))

truncateOutput(output, executionId) ==
  LET limit == getOutputLimitForExecution(executionId)
  IN IF limit = Null \/ Len(output) <= limit.val
     THEN output
     ELSE Slice(output, limit.val) \o TruncationMsg(limit.val, Len(output))

getTaskStatus(executionId) ==
  IF executionId \notin DOMAIN executions
  THEN [found |-> FALSE]
  ELSE [found |-> TRUE, execution |-> executions[executionId]]

getTaskOutput(executionId) ==
  IF executionId \notin DOMAIN executions
  THEN [found |-> FALSE, error |-> "Execution not found"]
  ELSE [found |-> TRUE,
        output |-> IF executionId \in DOMAIN outputs
                   THEN outputs[executionId] ELSE <<>>,
        truncated |-> IF executionId \in DOMAIN outputTruncated
                      THEN outputTruncated[executionId] ELSE Undef]

TaskInit ==
  /\ now = 0
  /\ configOutputLimit \in {Num(DefaultOutputLimit), Num(MaxLimit), Null}
  /\ executions = <<>>
  /\ outputs = <<>>
  /\ outputTruncated = <<>>
  /\ outputLimits = <<>>
  /\ activeExecutions = <<>>
  /\ executionToId = <<>>
  /\ interactiveExecutionIds = {}
  /\ starting = {}
  /\ proc = <<>>
  /\ ret = NoRet
  /\ awaiter = Idle

Tick ==
  /\ now + PollInterval <= MaxTicks * PollInterval
  /\ now' = now + PollInterval
  /\ UNCHANGED <<configOutputLimit, executions, outputs, outputTruncated,
                 outputLimits, activeExecutions, executionToId,
                 interactiveExecutionIds, starting, proc, ret, awaiter>>
  /\ UNCHANGED <<debugVars, envVars, extVars>>

\* the caller has read the value a synchronous call returned
Consume ==
  /\ ret # NoRet
  /\ ret' = NoRet
  /\ UNCHANGED <<now, configOutputLimit, executions, outputs,
                 outputTruncated, outputLimits, activeExecutions,
                 executionToId, interactiveExecutionIds, starting, proc,
                 awaiter>>
  /\ UNCHANGED <<debugVars, envVars, extVars>>

\* runTask for a name fetchTasks does not list
RunTaskNotFound ==
  /\ ret = NoRet
  /\ ret' = [op |-> "runTask", id |-> UnknownId, success |-> FALSE,
             error |-> "Task not found"]
  /\ UNCHANGED <<now, configOutputLimit, executions, outputs,
                 outputTruncated, outputLimits, activeExecutions,
                 executionToId, interactiveExecutionIds, starting, proc,
                 awaiter>>
  /\ UNCHANGED <<debugVars, envVars, extVars>>

\* runTask up to `await vscode.tasks.executeTask(...)`
RunTaskBegin(taskName, outputLimit, interactive) ==
  LET executionId == Cardinality(DOMAIN executions) + 1 IN
  /\ executionId \in ExecIds
  /\ executions' = Put(executions, executionId,
       [taskName |-> taskName, status |-> "running", startTime |-> now,
        endTime |-> Undef, exitCode |-> Undef])
  /\ outputs' = Put(outputs, executionId, <<>>)
  /\ outputLimits' = IF outputLimit # Undef
                     THEN Put(outputLimits, executionId, outputLimit)
                     ELSE outputLimits
  /\ interactiveExecutionIds' =
       IF interactive THEN interactiveExecutionIds \cup {executionId}
       ELSE interactiveExecutionIds
  /\ starting' = starting \cup {executionId}
  /\ proc' = Put(proc, executionId,
       [mode |-> IF interactive THEN "interactive" ELSE "capture",
        state |-> "pending", outputBuffer |-> <<>>, killed |-> FALSE,
        errored |-> FALSE, exitCode |-> Undef, closeCode |-> Undef,
        exitsSeen |-> <<>>, processEndFired |-> FALSE, endFired |-> FALSE])
  /\ UNCHANGED <<now, configOutputLimit, outputTruncated, activeExecutions,
                 executionToId, ret, awaiter>>
  /\ UNCHANGED <<debugVars, envVars, extVars>>

\* executeTask resolved: the rest of runTask / runTaskInteractive
RunTaskFinish(executionId) ==
  /\ executionId \in starting
  /\ ret = NoRet
  /\ starting' = starting \ {executionId}
  /\ activeExecutions' =
       Put(activeExecutions, executionId, StoredObj(executionId))
  /\ IF proc[executionId].mode = "interactive"
     THEN /\ executionToId' =
               Put(executionToId, StoredObj(executionId), executionId)
          /\ outputs' = Put(outputs, executionId, InteractivePlaceholder)
     ELSE UNCHANGED <<executionToId, outputs>>
  /\ ret' = [op |-> "runTask", id |-> executionId, success |-> TRUE,
             error |-> ""]
  /\ UNCHANGED <<now, configOutputLimit, executions, outputTruncated,
                 outputLimits, interactiveExecutionIds, proc, awaiter>>
  /\ UNCHANGED <<debugVars, envVars, extVars>>

\* executeTask rejected: the catch blocks of runTask / runTaskInteractive
RunTaskReject(executionId) ==
  /\ executionId \in starting
  /\ proc[executionId].state = "pending"
  /\ ret = NoRet
  /\ starting' = starting \ {executionId}
  /\ interactiveExecutionIds' =
       IF proc[executionId].mode = "interactive"
       THEN interactiveExecutionIds \ {executionId}
       ELSE interactiveExecutionIds
  /\ proc' = [proc EXCEPT ![executionId].state = "none"]
  /\ ret' = [op |-> "runTask", id |-> UnknownId, success |-> FALSE,
             error |-> "executeTask failed"]
  /\ UNCHANGED <<now, configOutputLimit, executions, outputs,
                 outputTruncated, outputLimits, activeExecutions,
                 executionToId, awaiter>>
  /\ UNCHANGED <<debugVars, envVars, extVars>>

\* the output callback runTask hands to OutputCapturePty
onOutput(executionId, output) ==
  /\ outputs' = Put(outputs, executionId, truncateOutput(output, executionId))
  /\ outputTruncated' =
       IF Truncates(output, executionId)
       THEN Put(outputTruncated, executionId, TRUE) ELSE outputTruncated

\* the exit callback's update with the exit code stored but not looked at
ExitSettledCompleted(info, exitCode) ==
  [info EXCEPT !.exitCode = Num(exitCode), !.status = "completed",
               !.endTime = Num(now)]

\* the record the exit callback of runTask leaves for the execution
ExitSettled(info, exitCode) ==
  [info EXCEPT !.exitCode = Num(exitCode),
               !.status = IF exitCode = 0 THEN "completed" ELSE "failed",
               !.endTime = Num(now)]

\* one delivery of an exit code to an execution, at the present time
Delivery(exitCode) == [code |-> exitCode, at |-> now]

\* the exit callback runTask hands to OutputCapturePty
onExit(executionId, exitCode) ==
  /\ executions' =
       IF executionId \in DOMAIN executions
       THEN [executions EXCEPT
               ![executionId] = ExitSettled(executions[executionId], exitCode)]
       ELSE executions
  /\ activeExecutions' = Del(activeExecutions, executionId)

\* VS Code starts the task: for a capture task the CustomExecution callback
\* builds the pty and open() spawns the shell
ProcOpen(executionId) ==
  /\ executionId \in DOMAIN proc
  /\ proc[executionId].state = "pending"
  /\ proc' = [proc EXCEPT ![executionId].state = "alive"]
  /\ UNCHANGED <<now, configOutputLimit, executions, outputs,
                 outputTruncated, outputLimits, activeExecutions,
                 executionToId, interactiveExecutionIds, starting, ret,
                 awaiter>>
  /\ UNCHANGED <<debugVars, envVars, extVars>>

\* handleData: a chunk on stdout or stderr (the streams stay open between
\* the child's 'exit' and its 'close')
PtyData(executionId, chunk) ==
  /\ executionId \in DOMAIN proc
  /\ proc[executionId].mode = "capture"
  /\ proc[executionId].state \in {"alive", "exited"}
  /\ Len(Join(proc[executionId].outputBuffer)) + Len(chunk) <= MaxEmit
  /\ LET outputBuffer == Append(proc[executionId].outputBuffer, chunk) IN
       /\ proc' = [proc EXCEPT ![executionId].outputBuffer = outputBuffer]
       /\ onOutput(executionId, Join(outputBuffer))
  /\ UNCHANGED <<now, configOutputLimit, executions, outputLimits,
                 activeExecutions, executionToId, interactiveExecutionIds,
                 starting, ret, awaiter>>
  /\ UNCHANGED <<debugVars, envVars, extVars>>

\* the child's 'error' event; Node may or may not emit 'exit' afterwards
PtyError(executionId, exitFollows) ==
  /\ executionId \in DOMAIN proc
  /\ proc[executionId].mode = "capture"
  /\ proc[executionId].state = "alive"
  /\ ~proc[executionId].errored
  /\ LET outputBuffer == Append(proc[executionId].outputBuffer, ErrMsg) IN
       /\ proc' = [proc EXCEPT
            ![executionId].outputBuffer = outputBuffer,
            ![executionId].errored = TRUE,
            ![executionId].exitsSeen = Append(@, Delivery(Num(-1))),
            ![executionId].closeCode = Num(-1),
            ![executionId].state = IF exitFollows THEN "alive" ELSE "closed"]
       /\ onOutput(executionId, Join(outputBuffer))
  /\ onExit(executionId, -1)
  /\ UNCHANGED <<now, configOutputLimit, outputLimits, executionToId,
                 interactiveExecutionIds, starting, ret, awaiter>>
  /\ UNCHANGED <<debugVars, envVars, extVars>>

\* the child's 'exit' event (code ?? 0)
PtyExit(executionId, code) ==
  /\ executionId \in DOMAIN proc
  /\ proc[executionId].mode = "capture"
  /\ proc[executionId].state = "alive"
  /\ proc' = [proc EXCEPT ![executionId].state = "exited",
                          ![executionId].exitCode = Num(code),
                          ![executionId].exitsSeen = Append(@, Delivery(Num(code)))]
  /\ onExit(executionId, code)
  /\ UNCHANGED <<now, configOutputLimit, outputs, outputTruncated,
                 outputLimits, executionToId, interactiveExecutionIds,
                 starting, ret, awaiter>>
  /\ UNCHANGED <<debugVars, envVars, extVars>>

\* the child's 'close' event: closeEmitter.fire ends the VS Code task
PtyClose(executionId) ==
  /\ executionId \in DOMAIN proc
  /\ proc[executionId].mode = "capture"
  /\ proc[executionId].state = "exited"
  /\ proc' = [proc EXCEPT
       ![executionId].state = "closed",
       ![executionId].closeCode =
          IF @ = Undef THEN proc[executionId].exitCode ELSE @]
  /\ UNCHANGED <<now, configOutputLimit, executions, outputs,
                 outputTruncated, outputLimits, activeExecutions,
                 executionToId, interactiveExecutionIds, starting, ret,
                 awaiter>>
  /\ UNCHANGED <<debugVars, envVars, extVars>>

\* the terminal process of an interactively run task ends; VS Code reports
\* its exit code, or undefined when it has none
ShellExit(executionId, exitCode) ==
  /\ executionId \in DOMAIN proc
  /\ proc[executionId].mode = "interactive"
  /\ proc[executionId].state = "alive"
  /\ proc' = [proc EXCEPT ![executionId].state = "closed",
                          ![executionId].exitCode = exitCode,
                          ![executionId].closeCode = exitCode]
  /\ UNCHANGED <<now, configOutputLimit, executions, outputs,
                 outputTruncated, outputLimits, activeExecutions,
                 executionToId, interactiveExecutionIds, starting, ret,
                 awaiter>>
  /\ UNCHANGED <<debugVars, envVars, extVars>>

\* the name fallback without its test of interactiveExecutionIds
NameMatchesAnyMode(taskName) ==
  {id \in DOMAIN executions :
     /\ executions[id].taskName = taskName
     /\ executions[id].status = "running"}

\* ids the name fallback of findExecutionId accepts
NameMatches(taskName) ==
  {id \in DOMAIN executions :
     /\ executions[id].taskName = taskName
     /\ executions[id].status = "running"
     /\ id \in interactiveExecutionIds}

Min(S) == CHOOSE x \in S : \A y \in S : x <= y

\* findExecutionId; UnknownId stands for undefined
findExecutionId(execution, taskName) ==
  IF execution \in DOMAIN executionToId THEN executionToId[execution]
  ELSE IF \E id \in DOMAIN activeExecutions :
            activeExecutions[id] = execution
  THEN CHOOSE id \in DOMAIN activeExecutions :
            activeExecutions[id] = execution
  ELSE IF NameMatches(taskName) # {} THEN Min(NameMatches(taskName))
  ELSE UnknownId

\* onTaskEnded's update without the end timestamp
EndedSettledUnstamped(info) ==
  IF info.status = "running"
  THEN [info EXCEPT !.status = "completed"]
  ELSE info

EndedSettled(info) ==
  IF info.status = "running"
  THEN [info EXCEPT !.status = "completed", !.endTime = Num(now)]
  ELSE info

\* onTaskEnded dropping the record of the ended execution
onTaskEndedEvicting(execution, taskName) ==
  LET execId == findExecutionId(execution, taskName) IN
  IF execId # UnknownId
  THEN /\ activeExecutions' = Del(activeExecutions, execId)
       /\ executionToId' = Del(executionToId, execution)
       /\ interactiveExecutionIds' = interactiveExecutionIds \ {execId}
       /\ executions' = Del(executions, execId)
  ELSE UNCHANGED <<activeExecutions, executionToId, interactiveExecutionIds,
                   executions>>

onTaskEnded(execution, taskName) ==
  LET execId == findExecutionId(execution, taskName) IN
  IF execId # UnknownId
  THEN /\ activeExecutions' = Del(activeExecutions, execId)
       /\ executionToId' = Del(executionToId, execution)
       /\ interactiveExecutionIds' = interactiveExecutionIds \ {execId}
       /\ executions' =
            IF execId \in DOMAIN executions
            THEN [executions EXCEPT ![execId] = EndedSettled(executions[execId])]
            ELSE executions
  ELSE UNCHANGED <<activeExecutions, executionToId, interactiveExecutionIds,
                   executions>>

\* onTaskProcessEnded's update without its `status === 'running'` test
ProcessEndedUnguarded(info, exitCode) ==
  [info EXCEPT !.exitCode = exitCode,
               !.status = IF exitCode = Num(0) THEN "completed" ELSE "failed",
               !.endTime = Num(now)]

ProcessEndedSettled(info, exitCode) ==
  IF info.status = "running"
  THEN [info EXCEPT !.exitCode = exitCode,
                    !.status = IF exitCode = Num(0)
                               THEN "completed" ELSE "failed",
                    !.endTime = Num(now)]
  ELSE [info EXCEPT !.exitCode = exitCode]

\* onTaskProcessEnded doing the cleanup of onTaskEnded as well
onTaskProcessEndedCleaning(execution, taskName, exitCode) ==
  LET execId == findExecutionId(execution, taskName) IN
  /\ executions' =
       IF execId # UnknownId /\ execId \in DOMAIN executions
       THEN [executions EXCEPT
               ![execId] = ProcessEndedSettled(executions[execId], exitCode)]
       ELSE executions
  /\ IF execId # UnknownId
     THEN /\ activeExecutions' = Del(activeExecutions, execId)
          /\ executionToId' = Del(executionToId, execution)
          /\ interactiveExecutionIds' = interactiveExecutionIds \ {execId}
     ELSE UNCHANGED <<activeExecutions, executionToId,
                      interactiveExecutionIds>>

onTaskProcessEnded(execution, taskName, exitCode) ==
  LET execId == findExecutionId(execution, taskName) IN
  /\ executions' =
       IF execId # UnknownId /\ execId \in DOMAIN executions
       THEN [executions EXCEPT
               ![execId] = ProcessEndedSettled(executions[execId], exitCode)]
       ELSE executions
  /\ UNCHANGED <<activeExecutions, executionToId, interactiveExecutionIds>>

\* the exit codes delivered to each execution so far, each with the time of
\* its delivery: a process-ended notification is added to the execution it
\* was attributed to
Delivered(p, execution, taskName, exitCode) ==
  LET execId == findExecutionId(execution, taskName) IN
  IF execId # UnknownId /\ execId \in DOMAIN p
  THEN [p EXCEPT ![execId].exitsSeen = Append(@, Delivery(exitCode))]
  ELSE p

\* the execution objects VS Code may pass for a tracked execution
ObjectsOf(executionId) == {StoredObj(executionId), AliasObj(executionId)}

\* the pty has fired its close event, or the terminal process has ended
TaskOver(executionId) ==
  proc[executionId].state = "closed" \/ proc[executionId].closeCode # Undef

\* vscode.tasks.onDidEndTaskProcess for a task started through runTask
NotifyProcessEnded(executionId, execution) ==
  /\ executionId \in DOMAIN proc
  /\ TaskOver(executionId)
  /\ ~proc[executionId].processEndFired
  /\ execution \in ObjectsOf(executionId)
  /\ proc' = Delivered([proc EXCEPT ![executionId].processEndFired = TRUE],
                         execution, executions[executionId].taskName,
                         proc[executionId].closeCode)
  /\ onTaskProcessEnded(execution, executions[executionId].taskName,
                        proc[executionId].closeCode)
  /\ UNCHANGED <<now, configOutputLimit, outputs, outputTruncated,
                 outputLimits, starting, ret, awaiter>>
  /\ UNCHANGED <<debugVars, envVars, extVars>>

\* vscode.tasks.onDidEndTask for a task started through runTask
NotifyEnded(executionId, execution) ==
  /\ executionId \in DOMAIN proc
  /\ TaskOver(executionId)
  /\ ~proc[executionId].endFired
  /\ execution \in ObjectsOf(executionId)
  /\ proc' = [proc EXCEPT ![executionId].endFired = TRUE]
  /\ onTaskEnded(execution, executions[executionId].taskName)
  /\ UNCHANGED <<now, configOutputLimit, outputs, outputTruncated,
                 outputLimits, starting, ret, awaiter>>
  /\ UNCHANGED <<debugVars, envVars, extVars>>

\* the same two notifications for a task that was started by the user or by
\* another extension
ForeignProcessEnded(taskName, exitCode) ==
  /\ onTaskProcessEnded(ForeignObj, taskName, exitCode)
  /\ proc' = Delivered(proc, ForeignObj, taskName, exitCode)
  /\ UNCHANGED <<now, configOutputLimit, outputs, outputTruncated,
                 outputLimits, starting, ret, awaiter>>
  /\ UNCHANGED <<debugVars, envVars, extVars>>

ForeignEnded(taskName) ==
  /\ onTaskEnded(ForeignObj, taskName)
  /\ UNCHANGED <<now, configOutputLimit, outputs, outputTruncated,
                 outputLimits, starting, proc, ret, awaiter>>
  /\ UNCHANGED <<debugVars, envVars, extVars>>

\* TaskExecution.terminate(): VS Code closes the pty (kill) or the terminal
Terminate(executionId) ==
  [proc EXCEPT ![executionId].killed =
     IF proc[executionId].state \in {"pending", "alive"} THEN TRUE ELSE @]

CancelSettled(info) ==
  [info EXCEPT !.status = "cancelled", !.endTime = Num(now)]

cancelTask(executionId) ==
  /\ ret = NoRet
  /\ IF executionId \notin DOMAIN activeExecutions
     THEN /\ ret' = [op |-> "cancelTask", id |-> executionId,
                     success |-> FALSE,
                     error |-> IF /\ executionId \in DOMAIN executions
                                  /\ executions[executionId].status # "running"
                               THEN "Task is not running"
                               ELSE "Execution not found"]
          /\ UNCHANGED <<proc, executions, activeExecutions>>
     ELSE /\ proc' = Terminate(executionId)
          /\ executions' =
               IF executionId \in DOMAIN executions
               THEN [executions EXCEPT
                       ![executionId] = CancelSettled(executions[executionId])]
               ELSE executions
          /\ activeExecutions' = Del(activeExecutions, executionId)
          /\ ret' = [op |-> "cancelTask", id |-> executionId,
                     success |-> TRUE, error |-> ""]
  /\ UNCHANGED <<now, configOutputLimit, outputs, outputTruncated,
                 outputLimits, executionToId, interactiveExecutionIds,
                 starting, awaiter>>
  /\ UNCHANGED <<debugVars, envVars, extVars>>

\* config.get('awaitTimeout', 300000)
getDefaultAwaitTimeout == DefaultAwaitTimeout

\* the result awaitTask builds for a settled execution
SettledResult(executionId) ==
  [kind |-> "settled",
   success |-> executions[executionId].status = "completed",
   executionId |-> executionId,
   status |-> executions[executionId].status,
   exitCode |-> executions[executionId].exitCode,
   output |-> IF executionId \in DOMAIN outputs
              THEN outputs[executionId] ELSE Undef,
   truncated |-> IF executionId \in DOMAIN outputTruncated
                 THEN outputTruncated[executionId] ELSE Undef,
   error |-> ""]

TimeoutResult(executionId) ==
  [kind |-> "timeout", success |-> FALSE, executionId |-> executionId,
   status |-> "running", exitCode |-> Undef, output |-> Undef,
   truncated |-> Undef, error |-> "Await timed out (task still running)"]

ErrorResult(executionId, error) ==
  [kind |-> "error", success |-> FALSE, executionId |-> executionId,
   status |-> "", exitCode |-> Undef, output |-> Undef,
   truncated |-> Undef, error |-> error]

\* the promise of awaitTask resolved; the call's start and timeout are kept
Resolved(result, startTime, timeout) ==
  [pc |-> "done", result |-> result, startTime |-> startTime,
   timeout |-> timeout]

\* checkStatus re-arming its timer with twice the poll interval
checkStatusSlowPoll(executionId, startTime, timeout) ==
  IF executionId \notin DOMAIN executions
  THEN Resolved(ErrorResult(executionId, "Execution info lost"),
                startTime, timeout)
  ELSE IF executions[executionId].status # "running"
  THEN Resolved(SettledResult(executionId), startTime, timeout)
  ELSE IF now - startTime > timeout
  THEN Resolved(TimeoutResult(executionId), startTime, timeout)
  ELSE [pc |-> "polling", executionId |-> executionId,
        startTime |-> startTime, timeout |-> timeout,
        due |-> now + 2 * PollInterval]

\* checkStatus with the timeout test moved before the status test
checkStatusTimeoutFirst(executionId, startTime, timeout) ==
  IF executionId \notin DOMAIN executions
  THEN Resolved(ErrorResult(executionId, "Execution info lost"),
                startTime, timeout)
  ELSE IF now - startTime > timeout
  THEN Resolved(TimeoutResult(executionId), startTime, timeout)
  ELSE IF executions[executionId].status # "running"
  THEN Resolved(SettledResult(executionId), startTime, timeout)
  ELSE [pc |-> "polling", executionId |-> executionId,
        startTime |-> startTime, timeout |-> timeout,
        due |-> now + PollInterval]

\* one run of checkStatus at time `now`
checkStatus(executionId, startTime, timeout) ==
  IF executionId \notin DOMAIN executions
  THEN Resolved(ErrorResult(executionId, "Execution info lost"),
                startTime, timeout)
  ELSE IF executions[executionId].status # "running"
  THEN Resolved(SettledResult(executionId), startTime, timeout)
  ELSE IF now - startTime > timeout
  THEN Resolved(TimeoutResult(executionId), startTime, timeout)
  ELSE [pc |-> "polling", executionId |-> executionId,
        startTime |-> startTime, timeout |-> timeout,
        due |-> now + PollInterval]

\* awaitTask up to the first setTimeout (or its immediate return)
awaitTask(executionId, timeoutMs) ==
  /\ awaiter = Idle
  /\ awaiter' =
       LET timeout == IF timeoutMs = Undef THEN getDefaultAwaitTimeout
                      ELSE timeoutMs.val
       IN IF executionId \notin DOMAIN executions
          THEN Resolved(ErrorResult(executionId, "Execution not found"),
                        now, timeout)
          ELSE IF executions[executionId].status # "running"
          THEN Resolved(SettledResult(executionId), now, timeout)
          ELSE checkStatus(executionId, now, timeout)
  /\ UNCHANGED <<now, configOutputLimit, executions, outputs,
                 outputTruncated, outputLimits, activeExecutions,
                 executionToId, interactiveExecutionIds, starting, proc, ret>>
  /\ UNCHANGED <<debugVars, envVars, extVars>>

\* the timer set by setTimeout(checkStatus, 100) fires
AwaitPoll ==
  /\ awaiter.pc = "polling"
  /\ now >= awaiter.due
  /\ awaiter' = checkStatus(awaiter.executionId, awaiter.startTime,
                            awaiter.timeout)
  /\ UNCHANGED <<now, configOutputLimit, executions, outputs,
                 outputTruncated, outputLimits, activeExecutions,
                 executionToId, interactiveExecutionIds, starting, proc, ret>>
  /\ UNCHANGED <<debugVars, envVars, extVars>>

\* the caller has received the promise's value
AwaitReturn ==
  /\ awaiter.pc = "done"
  /\ awaiter' = Idle
  /\ UNCHANGED <<now, configOutputLimit, executions, outputs,
                 outputTruncated, outputLimits, activeExecutions,
                 executionToId, interactiveExecutionIds, starting, proc, ret>>
  /\ UNCHANGED <<debugVars, envVars, extVars>>

\* -------------------------------------------------------------- debug side
SessionIds == 1..MaxSessions
NoSession == 0
Str(s) == [tag |-> "string", val |-> s]

\* no message of an adapter has been seen yet
NoMessage == [seq |-> 0, type |-> "none"]

\* event bodies: absent, or the fields the handlers read
NoBody == [present |-> FALSE]
Body(reason, threadId, text, description, output) ==
  [present |-> TRUE, reason |-> reason, threadId |-> threadId,
   text |-> text, description |-> description, output |-> output]
PlainBody == Body(Undef, Undef, Undef, Undef, Undef)
ThreadIdOptions == {Undef, Num(0), Num(1)}
StoppedBodies ==
  {Body(reason, threadId, text, description, Undef) :
     reason \in {Undef, Str("breakpoint"), Str("exception")},
     threadId \in ThreadIdOptions,
     text \in {Undef, Str("E")},
     description \in {Undef, Str("d")}}
OutputBodies ==
  {Body(Undef, Undef, Undef, Undef, output) :
     output \in {Undef} \cup {Str(chunk) : chunk \in Chunks \cup {<<>>}}}
EventNames ==
  {"initialized", "output", "stopped", "continued", "exited", "terminated"}
BodiesOf(event) ==
  {NoBody} \cup
  (CASE event = "stopped" -> StoppedBodies
     [] event = "output" -> OutputBodies
     [] OTHER -> {PlainBody})

getOutputLimitForSession(sessionId) ==
  IF sessionId \in DOMAIN sessionOutputLimits
  THEN sessionOutputLimits[sessionId] ELSE getDefaultOutputLimit

\* `\n\n[Output truncated: showing first ${limit} characters]`
DebugTruncationMsg(limit) ==
  TruncPrefix
    \o (IF limit = Null THEN <<"n", "u", "l", "l">> ELSE Digits(limit.val))
    \o TruncSuffix

\* vscode.debug.activeDebugSession?.id === sessionId
findSessionById(sessionId) ==
  IF activeDebugSession # NoSession /\ activeDebugSession = sessionId
  THEN sessionId ELSE NoSession

\* sessionId || vscode.debug.activeDebugSession?.id
TargetId(sessionId) ==
  IF sessionId # NoSession THEN sessionId ELSE activeDebugSession

getDebugStatus == {id \in DOMAIN sessions : sessions[id].status = "active"}

getDebugOutput(sessionId) ==
  LET targetId == TargetId(sessionId) IN
  IF targetId = NoSession
  THEN [success |-> FALSE, error |-> "No active debug session"]
  ELSE IF targetId \notin DOMAIN sessionOutputs
  THEN [success |-> FALSE, error |-> "Session not found or no output captured"]
  ELSE [success |-> TRUE, sessionId |-> targetId,
        output |-> IF targetId \in DOMAIN sessionOutputTruncated
                   THEN Join(sessionOutputs[targetId])
                          \o DebugTruncationMsg(getOutputLimitForSession(targetId))
                   ELSE Join(sessionOutputs[targetId]),
        truncated |-> IF targetId \in DOMAIN sessionOutputTruncated
                      THEN sessionOutputTruncated[targetId] ELSE Undef]

DebugInit ==
  /\ sessions = <<>>
  /\ sessionOutputs = <<>>
  /\ outputLengths = <<>>
  /\ sessionOutputTruncated = <<>>
  /\ sessionOutputLimits = <<>>
  /\ pendingOutputLimits = <<>>
  /\ pendingConsoleOverrides = <<>>
  /\ activeDebugSession = NoSession
  /\ adapter = [id \in SessionIds |-> "none"]
  /\ offered = [id \in SessionIds |-> 0]
  /\ startCall = Idle
  /\ inspect = Idle
  /\ requests = <<>>
  /\ breakpoints = <<>>
  /\ received = NoMessage

\* VS Code creates a session and its adapter; createDebugAdapterTracker
\* attaches the tracker.  forCall: the session answers the startDebug call
SessionCreate(sessionId, forCall) ==
  /\ adapter[sessionId] = "none"
  /\ adapter' = [adapter EXCEPT ![sessionId] = "created"]
  /\ IF forCall
     THEN /\ startCall.pc = "starting"
          /\ startCall.launched = NoSession
          /\ startCall' = [startCall EXCEPT !.launched = sessionId]
     ELSE UNCHANGED startCall
  /\ UNCHANGED <<sessions, sessionOutputs, outputLengths,
                 sessionOutputTruncated, sessionOutputLimits,
                 pendingOutputLimits, pendingConsoleOverrides,
                 activeDebugSession, offered, inspect, requests>>
  /\ UNCHANGED <<taskVars, envVars, extVars>>

NewSession ==
  [status |-> "active", state |-> "initializing", startTime |-> now,
   endTime |-> Undef, stopReason |-> Undef, exceptionInfo |-> Undef,
   stoppedThreadId |-> Undef, consoleOverridden |-> Undef]

\* vscode.debug.onDidStartDebugSession; the new session becomes the active one
onSessionStarted(sessionId) ==
  /\ adapter[sessionId] = "created"
  /\ adapter' = [adapter EXCEPT ![sessionId] = "started"]
  /\ sessions' = Put(sessions, sessionId, NewSession)
  /\ sessionOutputs' = Put(sessionOutputs, sessionId, <<>>)
  /\ outputLengths' = Put(outputLengths, sessionId, 0)
  /\ sessionOutputTruncated' = Del(sessionOutputTruncated, sessionId)
  /\ offered' = [offered EXCEPT ![sessionId] = 0]
  /\ activeDebugSession' = sessionId
  /\ UNCHANGED <<sessionOutputLimits, pendingOutputLimits,
                 pendingConsoleOverrides, startCall, inspect, requests>>
  /\ UNCHANGED <<taskVars, envVars, extVars>>

Terminated(info) ==
  [info EXCEPT !.status = "terminated", !.state = "terminated",
               !.endTime = Num(now)]

\* vscode.debug.onDidTerminateDebugSession; focus moves to `nextActive`
onSessionTerminated(sessionId, nextActive) ==
  /\ adapter[sessionId] = "started"
  /\ adapter' = [adapter EXCEPT ![sessionId] = "terminated"]
  /\ sessions' =
       IF sessionId \in DOMAIN sessions
       THEN [sessions EXCEPT ![sessionId] = Terminated(sessions[sessionId])]
       ELSE sessions
  /\ nextActive # NoSession =>
       nextActive # sessionId /\ adapter[nextActive] = "started"
  /\ activeDebugSession' =
       IF activeDebugSession = sessionId THEN nextActive
       ELSE activeDebugSession
  /\ UNCHANGED <<sessionOutputs, outputLengths, sessionOutputTruncated,
                 sessionOutputLimits, pendingOutputLimits,
                 pendingConsoleOverrides, offered, startCall, inspect,
                 requests>>
  /\ UNCHANGED <<taskVars, envVars, extVars>>

\* the user focuses another running session
FocusSession(sessionId) ==
  /\ adapter[sessionId] = "started"
  /\ activeDebugSession # sessionId
  /\ activeDebugSession' = sessionId
  /\ UNCHANGED <<sessions, sessionOutputs, outputLengths,
                 sessionOutputTruncated, sessionOutputLimits,
                 pendingOutputLimits, pendingConsoleOverrides, adapter,
                 offered, startCall, inspect, requests>>
  /\ UNCHANGED <<taskVars, envVars, extVars>>

captureOutput(sessionId, body) ==
  LET output == body.output
      limit == getOutputLimitForSession(sessionId)
      currentLength == IF sessionId \in DOMAIN outputLengths
                       THEN outputLengths[sessionId] ELSE 0
      stored == IF sessionId \in DOMAIN sessionOutputs
                THEN sessionOutputs[sessionId] ELSE <<>>
  IN
  IF output = Undef \/ output.val = <<>>
  THEN UNCHANGED <<sessionOutputs, outputLengths, sessionOutputTruncated>>
  ELSE IF limit # Null /\ currentLength >= limit.val
  THEN UNCHANGED <<sessionOutputs, outputLengths, sessionOutputTruncated>>
  ELSE IF limit # Null /\ currentLength + Len(output.val) > limit.val
  THEN /\ sessionOutputs' =
            Put(sessionOutputs, sessionId,
                Append(stored, Slice(output.val, limit.val - currentLength)))
       /\ outputLengths' = Put(outputLengths, sessionId, limit.val)
       /\ sessionOutputTruncated' = Put(sessionOutputTruncated, sessionId, TRUE)
  ELSE /\ sessionOutputs' =
            Put(sessionOutputs, sessionId, Append(stored, output.val))
       /\ outputLengths' =
            Put(outputLengths, sessionId, currentLength + Len(output.val))
       /\ UNCHANGED sessionOutputTruncated

\* SessionEvent with a stopped case that does not record the thread id
SessionEventNoThread(info, event, body) ==
  CASE event = "initialized" -> [info EXCEPT !.state = "running"]
    [] event = "stopped" ->
         [info EXCEPT
            !.state = "paused",
            !.stopReason = body.reason,
            !.exceptionInfo =
               IF body.reason = Str("exception")
               THEN [exceptionId |-> IF body.text = Undef
                                     THEN Str("unknown") ELSE body.text,
                     description |-> body.description]
               ELSE @]
    [] event = "continued" ->
         [info EXCEPT !.state = "running", !.stopReason = Undef,
                      !.stoppedThreadId = Undef]
    [] event \in {"exited", "terminated"} ->
         [info EXCEPT !.state = "terminated"]
    [] OTHER -> info

\* SessionEvent with a continued case that clears the stop but not the state
SessionEventStaysPaused(info, event, body) ==
  CASE event = "initialized" -> [info EXCEPT !.state = "running"]
    [] event = "stopped" ->
         [info EXCEPT
            !.state = "paused",
            !.stopReason = body.reason,
            !.stoppedThreadId = body.threadId,
            !.exceptionInfo =
               IF body.reason = Str("exception")
               THEN [exceptionId |-> IF body.text = Undef
                                     THEN Str("unknown") ELSE body.text,
                     description |-> body.description]
               ELSE @]
    [] event = "continued" ->
         [info EXCEPT !.stopReason = Undef, !.stoppedThreadId = Undef]
    [] event \in {"exited", "terminated"} ->
         [info EXCEPT !.state = "terminated"]
    [] OTHER -> info

\* the record handleDebugEvent leaves for a tracked session
SessionEvent(info, event, body) ==
  CASE event = "initialized" -> [info EXCEPT !.state = "running"]
    [] event = "stopped" ->
         [info EXCEPT
            !.state = "paused",
            !.stopReason = body.reason,
            !.stoppedThreadId = body.threadId,
            !.exceptionInfo =
               IF body.reason = Str("exception")
               THEN [exceptionId |-> IF body.text = Undef
                                     THEN Str("unknown") ELSE body.text,
                     description |-> body.description]
               ELSE @]
    [] event = "continued" ->
         [info EXCEPT !.state = "running", !.stopReason = Undef,
                      !.stoppedThreadId = Undef]
    [] event \in {"exited", "terminated"} ->
         [info EXCEPT !.state = "terminated"]
    [] OTHER -> info

\* onDidSendMessage of the tracker: a protocol event of the adapter
handleDebugEvent(sessionId, event, body) ==
  /\ adapter[sessionId] # "none"
  /\ event = "output" /\ body.present /\ body.output # Undef
       => offered[sessionId] + Len(body.output.val) <= MaxEmit
  /\ offered' =
       IF event = "output" /\ body.present /\ body.output # Undef
       THEN [offered EXCEPT ![sessionId] = @ + Len(body.output.val)]
       ELSE offered
  /\ IF ~body.present
     THEN UNCHANGED <<sessions, sessionOutputs, outputLengths,
                      sessionOutputTruncated>>
     ELSE IF event = "output"
     THEN captureOutput(sessionId, body) /\ UNCHANGED sessions
     ELSE /\ sessions' =
               IF sessionId \in DOMAIN sessions
               THEN [sessions EXCEPT
                       ![sessionId] = SessionEvent(sessions[sessionId], event, body)]
               ELSE sessions
          /\ UNCHANGED <<sessionOutputs, outputLengths,
                         sessionOutputTruncated>>
  /\ UNCHANGED <<sessionOutputLimits, pendingOutputLimits,
                 pendingConsoleOverrides, activeDebugSession, adapter,
                 startCall, inspect, requests>>
  /\ UNCHANGED <<taskVars, breakpoints, extVars>>

\* a protocol event the model does not keep a copy of
DebugEvent(sessionId, event, body) ==
  /\ handleDebugEvent(sessionId, event, body)
  /\ UNCHANGED received

\* a message of type `type` from the adapter of session `from`, with the
\* state the session's record was in when it arrived
Message(from, type, event, body) ==
  [seq |-> 1 - received.seq, from |-> from, type |-> type, event |-> event,
   body |-> body,
   before |-> IF from \in DOMAIN sessions THEN sessions[from].state
              ELSE "untracked"]

\* the tracker's onDidSendMessage: events go to handleDebugEvent, other
\* messages are dropped
onDidSendMessage(sessionId, type, event, body) ==
  /\ received' = Message(sessionId, type, event, body)
  /\ IF type = "event"
     THEN handleDebugEvent(sessionId, event, body)
     ELSE /\ adapter[sessionId] # "none"
          /\ UNCHANGED <<taskVars, debugVars, breakpoints, extVars>>

Consoles ==
  {"integratedTerminal", "externalTerminal", "internalConsole", "undefined"}

\* `debug-${Date.now()}`: the id startDebug makes up without an active session
FallbackSessionId == 0 - 1 - now

\* startDebug for a name listLaunchConfigs does not list
StartDebugNotFound ==
  /\ startCall = Idle
  /\ startCall' = [pc |-> "done", success |-> FALSE, sessionId |-> NoSession,
                   consoleOverridden |-> Undef, launched |-> NoSession,
                   error |-> "Launch configuration not found",
                   originalConsole |-> "undefined", preserveConsole |-> FALSE,
                   console |-> "undefined"]
  /\ UNCHANGED <<sessions, sessionOutputs, outputLengths,
                 sessionOutputTruncated, sessionOutputLimits,
                 pendingOutputLimits, pendingConsoleOverrides,
                 activeDebugSession, adapter, offered, inspect, requests>>
  /\ UNCHANGED <<taskVars, envVars, extVars>>

\* startDebug up to `await vscode.debug.startDebugging(...)`
StartDebugBegin(console, preserveConsole, outputLimit) ==
  LET consoleOverridden ==
        console \in {"integratedTerminal", "externalTerminal"}
          /\ ~preserveConsole
      pendingId == now
  IN
  /\ startCall = Idle
  /\ pendingConsoleOverrides' =
       Put(pendingConsoleOverrides, pendingId, consoleOverridden)
  /\ pendingOutputLimits' =
       IF outputLimit # Undef
       THEN Put(pendingOutputLimits, pendingId, outputLimit)
       ELSE pendingOutputLimits
  /\ startCall' =
       [pc |-> "starting", pendingId |-> pendingId,
        console |-> IF consoleOverridden THEN "internalConsole" ELSE console,
        consoleOverridden |-> consoleOverridden,
        outputLimit |-> outputLimit, launched |-> NoSession,
        originalConsole |-> console, preserveConsole |-> preserveConsole]
  /\ UNCHANGED <<sessions, sessionOutputs, outputLengths,
                 sessionOutputTruncated, sessionOutputLimits,
                 activeDebugSession, adapter, offered, inspect, requests>>
  /\ UNCHANGED <<taskVars, envVars, extVars>>

\* startDebugging resolved with `started`: the rest of startDebug
StartDebugFinish(started) ==
  LET launched == startCall.launched
      activeSession == activeDebugSession
  IN
  /\ startCall.pc = "starting"
  /\ IF started
     THEN launched # NoSession /\ adapter[launched] \in {"started", "terminated"}
     ELSE launched # NoSession => adapter[launched] # "started"
  /\ pendingConsoleOverrides' =
       Del(pendingConsoleOverrides, startCall.pendingId)
  /\ pendingOutputLimits' = Del(pendingOutputLimits, startCall.pendingId)
  /\ IF ~started
     THEN /\ startCall' =
               [pc |-> "done", success |-> FALSE, sessionId |-> NoSession,
                consoleOverridden |-> Undef, launched |-> launched,
                error |-> "Failed to start debug session",
                originalConsole |-> startCall.originalConsole,
                preserveConsole |-> startCall.preserveConsole,
                console |-> startCall.console]
          /\ UNCHANGED <<sessions, sessionOutputLimits>>
     ELSE /\ startCall' =
               [pc |-> "done", success |-> TRUE,
                sessionId |-> IF activeSession # NoSession
                              THEN activeSession ELSE FallbackSessionId,
                consoleOverridden |-> startCall.consoleOverridden,
                launched |-> launched, error |-> "",
                originalConsole |-> startCall.originalConsole,
                preserveConsole |-> startCall.preserveConsole,
                console |-> startCall.console]
          /\ sessions' =
               IF /\ activeSession # NoSession
                  /\ startCall.consoleOverridden
                  /\ activeSession \in DOMAIN sessions
               THEN [sessions EXCEPT ![activeSession].consoleOverridden = Bool(TRUE)]
               ELSE sessions
          /\ sessionOutputLimits' =
               IF activeSession # NoSession /\ startCall.outputLimit # Undef
               THEN Put(sessionOutputLimits, activeSession,
                        startCall.outputLimit)
               ELSE sessionOutputLimits
  /\ UNCHANGED <<sessionOutputs, outputLengths, sessionOutputTruncated,
                 activeDebugSession, adapter, offered, inspect, requests>>
  /\ UNCHANGED <<taskVars, envVars, extVars>>

\* the caller has received startDebug's result
StartDebugReturn ==
  /\ startCall.pc = "done"
  /\ startCall' = Idle
  /\ UNCHANGED <<sessions, sessionOutputs, outputLengths,
                 sessionOutputTruncated, sessionOutputLimits,
                 pendingOutputLimits, pendingConsoleOverrides,
                 activeDebugSession, adapter, offered, inspect, requests>>
  /\ UNCHANGED <<taskVars, envVars, extVars>>

\* ------------------------------------------------------ inspection facade
InspectOps == {"getStackTrace", "getVariables", "evaluate", "continueExecution"}

\* JavaScript truthiness of an optional number
Truthy(v) == v # Undef /\ v # Num(0)

\* session.customRequest(command, ...), with the state the session is in
Request(command, targetId, arg) ==
  [command |-> command, sessionId |-> targetId, arg |-> arg,
   state |-> sessions[targetId].state]

Done(op, targetId, success, error) ==
  [pc |-> "done", op |-> op, targetId |-> targetId, success |-> success,
   error |-> error]

Waiting(op, targetId, command, remaining) ==
  [pc |-> "wait", op |-> op, targetId |-> targetId, request |-> command,
   remaining |-> remaining]

\* the head of the four operations without their `state !== 'paused'` test
InspectHeadAnyState(op, sessionId, arg) ==
  LET targetId == TargetId(sessionId)
      info == sessions[targetId]
      Fail(error) == [next |-> Done(op, targetId, FALSE, error), issued |-> <<>>]
      Issue(command, a) ==
        [next |-> Waiting(op, targetId, command, 0),
         issued |-> <<Request(command, targetId, a)>>]
  IN
  IF targetId = NoSession THEN Fail("No active debug session")
  ELSE IF targetId \notin DOMAIN sessions THEN Fail("Session not found")
  ELSE IF findSessionById(targetId) = NoSession
  THEN Fail("Debug session not found")
  ELSE IF op = "continueExecution"
  THEN Issue("continue", IF Truthy(arg) THEN arg ELSE Num(1))
  ELSE IF op = "getStackTrace" \/ arg = Undef
  THEN Issue("stackTrace", Num(1))
  ELSE Issue(IF op = "getVariables" THEN "scopes" ELSE "evaluate", arg)

\* the synchronous head of getStackTrace / getVariables / evaluate /
\* continueExecution: the checks, then the first customRequest
InspectHead(op, sessionId, arg) ==
  LET targetId == TargetId(sessionId)
      info == sessions[targetId]
      Fail(error) == [next |-> Done(op, targetId, FALSE, error), issued |-> <<>>]
      Issue(command, a) ==
        [next |-> Waiting(op, targetId, command, 0),
         issued |-> <<Request(command, targetId, a)>>]
      NoThread == Fail("No stopped thread ID available")
      NoSessionObject == Fail("Debug session not found")
  IN
  IF targetId = NoSession THEN Fail("No active debug session")
  ELSE IF targetId \notin DOMAIN sessions THEN Fail("Session not found")
  ELSE IF info.state # "paused" THEN Fail("Session is not paused")
  ELSE IF op = "getStackTrace"
  THEN IF ~Truthy(info.stoppedThreadId) THEN NoThread
       ELSE IF findSessionById(targetId) = NoSession THEN NoSessionObject
       ELSE Issue("stackTrace", info.stoppedThreadId)
  ELSE IF op = "continueExecution"
  THEN IF findSessionById(targetId) = NoSession THEN NoSessionObject
       ELSE LET targetThreadId ==
                  IF Truthy(arg) THEN arg ELSE info.stoppedThreadId
            IN IF ~Truthy(targetThreadId) THEN Fail("No thread ID available")
               ELSE Issue("continue", targetThreadId)
  ELSE IF findSessionById(targetId) = NoSession THEN NoSessionObject
       ELSE IF arg = Undef
       THEN IF ~Truthy(info.stoppedThreadId) THEN NoThread
            ELSE Issue("stackTrace", info.stoppedThreadId)
       ELSE Issue(IF op = "getVariables" THEN "scopes" ELSE "evaluate", arg)

InspectCall(op, sessionId, arg) ==
  /\ inspect = Idle
  /\ inspect' = InspectHead(op, sessionId, arg).next
  /\ requests' = InspectHead(op, sessionId, arg).issued
  /\ UNCHANGED <<sessions, sessionOutputs, outputLengths,
                 sessionOutputTruncated, sessionOutputLimits,
                 pendingOutputLimits, pendingConsoleOverrides,
                 activeDebugSession, adapter, offered, startCall>>
  /\ UNCHANGED <<taskVars, envVars, extVars>>

\* the continuation after an awaited customRequest: the adapter answered
\* (ok, with n stack frames or n scopes) or the request was rejected
InspectTail(ok, n) ==
  LET op == inspect.op
      targetId == inspect.targetId
      Finish(success, error) ==
        [next |-> Done(op, targetId, success, error), issued |-> <<>>]
      Issue(command, a, remaining) ==
        [next |-> Waiting(op, targetId, command, remaining),
         issued |-> <<Request(command, targetId, a)>>]
  IN
  IF ~ok THEN Finish(FALSE, "Request failed")
  ELSE IF inspect.request = "stackTrace"
  THEN IF op = "getStackTrace" THEN Finish(TRUE, "")
       ELSE IF n = 0 THEN Finish(FALSE, "No stack frames available")
       ELSE Issue(IF op = "getVariables" THEN "scopes" ELSE "evaluate",
                  Num(1), 0)
  ELSE IF inspect.request = "scopes"
  THEN IF n = 0 THEN Finish(TRUE, "")
       ELSE Issue("variables", Num(n), n - 1)
  ELSE IF inspect.request = "variables" /\ inspect.remaining > 0
  THEN Issue("variables", Num(inspect.remaining), inspect.remaining - 1)
  ELSE Finish(TRUE, "")

\* InspectRespond marking the session as running when `continue` is answered
InspectRespondResuming(ok, n) ==
  /\ inspect.pc = "wait"
  /\ ok => adapter[inspect.targetId] = "started"
  /\ inspect' = InspectTail(ok, n).next
  /\ requests' = requests \o InspectTail(ok, n).issued
  /\ sessions' =
       IF ok /\ inspect.op = "continueExecution"
       THEN [sessions EXCEPT ![inspect.targetId].state = "running"]
       ELSE sessions
  /\ UNCHANGED <<sessionOutputs, outputLengths,
                 sessionOutputTruncated, sessionOutputLimits,
                 pendingOutputLimits, pendingConsoleOverrides,
                 activeDebugSession, adapter, offered, startCall>>
  /\ UNCHANGED <<taskVars, envVars, extVars>>

InspectRespond(ok, n) ==
  /\ inspect.pc = "wait"
  /\ ok => adapter[inspect.targetId] = "started"
  /\ inspect' = InspectTail(ok, n).next
  /\ requests' = requests \o InspectTail(ok, n).issued
  /\ UNCHANGED <<sessions, sessionOutputs, outputLengths,
                 sessionOutputTruncated, sessionOutputLimits,
                 pendingOutputLimits, pendingConsoleOverrides,
                 activeDebugSession, adapter, offered, startCall>>
  /\ UNCHANGED <<taskVars, envVars, extVars>>

\* the caller has received the result of the inspection or of stopDebug
InspectReturn ==
  /\ inspect.pc = "done"
  /\ inspect' = Idle
  /\ UNCHANGED <<sessions, sessionOutputs, outputLengths,
                 sessionOutputTruncated, sessionOutputLimits,
                 pendingOutputLimits, pendingConsoleOverrides,
                 activeDebugSession, adapter, offered, startCall, requests>>
  /\ UNCHANGED <<taskVars, envVars, extVars>>

\* ---------------------------------------------------------- breakpoints
\* file arguments: an absolute path, the same path without its leading
\* slash, and another absolute path
Files == {<<"/", "a">>, <<"a">>, <<"/", "b">>}
\* 1-based line arguments; 0 is the line before the first
Lines == 0..2
Conditions == {Undef, Str("x"), Str("y")}

\* vscode.Uri.file(file).fsPath on a POSIX host
fsPath(file) == IF file[1] = "/" THEN file ELSE <<"/">> \o file

\* new vscode.SourceBreakpoint(new Location(Uri.file(file),
\*                                          new Position(line, 0)),
\*                             true, condition)
SourceBreakpoint(file, line, condition) ==
  [kind |-> "source", file |-> fsPath(file), line |-> line,
   enabled |-> TRUE, condition |-> condition]

\* a breakpoint that is not a SourceBreakpoint
FunctionBreakpoint ==
  [kind |-> "function", file |-> <<>>, line |-> 0, enabled |-> TRUE,
   condition |-> Undef]

\* the user sets a function breakpoint in the editor
FunctionBreakpointAdded ==
  /\ Len(breakpoints) < MaxBreakpoints
  /\ breakpoints' = Append(breakpoints, FunctionBreakpoint)
  /\ UNCHANGED <<taskVars, debugVars, received, extVars>>

addBreakpoint(file, line, condition) ==
  /\ inspect = Idle
  /\ IF line - 1 < 0
     THEN \* new vscode.Position throws on a negative line
          /\ inspect' = [pc |-> "done", op |-> "addBreakpoint",
                         success |-> FALSE,
                         error |-> "Failed to add breakpoint",
                         file |-> file, line |-> line,
                         condition |-> condition]
          /\ UNCHANGED breakpoints
     ELSE /\ Len(breakpoints) < MaxBreakpoints
          /\ breakpoints' =
               Append(breakpoints, SourceBreakpoint(file, line - 1, condition))
          /\ inspect' = [pc |-> "done", op |-> "addBreakpoint",
                         success |-> TRUE, error |-> "",
                         file |-> file, line |-> line,
                         condition |-> condition]
  /\ UNCHANGED <<sessions, sessionOutputs, outputLengths,
                 sessionOutputTruncated, sessionOutputLimits,
                 pendingOutputLimits, pendingConsoleOverrides,
                 activeDebugSession, adapter, offered, startCall, requests>>
  /\ UNCHANGED <<taskVars, received, extVars>>

\* removeBreakpoint's filter with bpLine === line in place of line - 1
toRemoveOneBased(file, line) ==
  {i \in 1..Len(breakpoints) :
     /\ breakpoints[i].kind = "source"
     /\ breakpoints[i].file = file
     /\ breakpoints[i].line = line}

\* positions in vscode.debug.breakpoints that removeBreakpoint's filter selects
toRemove(file, line) ==
  LET targetLine == line - 1 IN
  {i \in 1..Len(breakpoints) :
     /\ breakpoints[i].kind = "source"
     /\ breakpoints[i].file = file
     /\ breakpoints[i].line = targetLine}

\* seq without the elements at the positions in gone
Without(seq, gone) ==
  LET kept(n) == Cardinality({i \in 1..n : i \notin gone})
      at(k) == CHOOSE i \in 1..Len(seq) : i \notin gone /\ kept(i) = k
  IN [k \in 1..kept(Len(seq)) |-> seq[at(k)]]

removeBreakpoint(file, line) ==
  /\ inspect = Idle
  /\ IF toRemove(file, line) = {}
     THEN /\ inspect' = [pc |-> "done", op |-> "removeBreakpoint",
                         success |-> FALSE, error |-> "No breakpoint found",
                         file |-> file, line |-> line, removed |-> 0]
          /\ UNCHANGED breakpoints
     ELSE /\ breakpoints' = Without(breakpoints, toRemove(file, line))
          /\ inspect' = [pc |-> "done", op |-> "removeBreakpoint",
                         success |-> TRUE, error |-> "",
                         file |-> file, line |-> line,
                         removed |-> Cardinality(toRemove(file, line))]
  /\ UNCHANGED <<sessions, sessionOutputs, outputLengths,
                 sessionOutputTruncated, sessionOutputLimits,
                 pendingOutputLimits, pendingConsoleOverrides,
                 activeDebugSession, adapter, offered, startCall, requests>>
  /\ UNCHANGED <<taskVars, received, extVars>>

BreakpointInfo(bp) ==
  [id |-> <<bp.file, bp.line + 1>>, file |-> bp.file, line |-> bp.line + 1,
   enabled |-> bp.enabled, condition |-> bp.condition]

listBreakpoints ==
  LET source == SelectSeq(breakpoints, LAMBDA bp : bp.kind = "source")
  IN [k \in 1..Len(source) |-> BreakpointInfo(source[k])]

\* ------------------------------------------------------------ stopDebug
\* `Session "${sessionId}" not found`
StopNotFound == "Session \"sessionId\" not found"

\* vscode.debug.stopDebugging asked to stop session sessionId
StopRequest(sessionId) ==
  [command |-> "stopDebugging", sessionId |-> sessionId, arg |-> Undef,
   state |-> IF sessionId \in DOMAIN sessions
             THEN sessions[sessionId].state ELSE "none"]

\* vscode.debug.stopDebugging(): with the session omitted VS Code stops
\* every debug session it has
StopAll ==
  LET live == SelectSeq([i \in 1..MaxSessions |-> i],
                        LAMBDA i : adapter[i] \in {"created", "started"})
  IN [k \in 1..Len(live) |-> StopRequest(live[k])]

\* stopDebug up to its await
stopDebug(sessionId) ==
  /\ inspect = Idle
  /\ IF sessionId # NoSession
     THEN IF findSessionById(sessionId) # NoSession
          THEN /\ inspect' = Waiting("stopDebug", sessionId, "stopDebugging", 0)
               /\ requests' = <<StopRequest(findSessionById(sessionId))>>
          ELSE /\ inspect' = Done("stopDebug", sessionId, FALSE, StopNotFound)
               /\ requests' = <<>>
     ELSE /\ inspect' = Waiting("stopDebug", NoSession, "stopDebugging", 0)
          /\ requests' = StopAll
  /\ UNCHANGED <<sessions, sessionOutputs, outputLengths,
                 sessionOutputTruncated, sessionOutputLimits,
                 pendingOutputLimits, pendingConsoleOverrides,
                 activeDebugSession, adapter, offered, startCall>>
  /\ UNCHANGED <<taskVars, envVars, extVars>>

\* stopDebugging resolved (ok) or rejected: the rest of stopDebug
StopDebugRespond(ok) ==
  /\ inspect.pc = "wait"
  /\ inspect.op = "stopDebug"
  /\ inspect' = IF ok THEN Done("stopDebug", inspect.targetId, TRUE, "")
                ELSE Done("stopDebug", inspect.targetId, FALSE, "Error")
  /\ UNCHANGED <<sessions, sessionOutputs, outputLengths,
                 sessionOutputTruncated, sessionOutputLimits,
                 pendingOutputLimits, pendingConsoleOverrides,
                 activeDebugSession, adapter, offered, startCall, requests>>
  /\ UNCHANGED <<taskVars, envVars, extVars>>

\* ------------------------------------------------------------- extension
NoServer == 0        \* stands for null
ServerIds == 1..MaxServers
Ownerships == {"free", "ours", "other"}
Requesters == {"ignition-mcp", "other"}

\* new MCPServer(...) followed by the synchronous part of start(): the
\* http server is created and listen() is called
NewServer ==
  [start |-> "listen", http |-> "opening", transport |-> FALSE,
   stop |-> "none", awaited |-> TRUE]

ExtensionInit ==
  /\ mcpServer = NoServer
  /\ serverState = "stopped"
  /\ servers = <<>>
  /\ shutdownImmediates = {}
  /\ activation = "activating"
  /\ restart = Idle

\* MCPServer.stop() up to its first suspension: with a transport it awaits
\* transport.close(), without one it calls server.close()
stop(srv) ==
  IF srv.stop # "none" THEN srv
  ELSE IF srv.transport THEN [srv EXCEPT !.stop = "transport"]
  ELSE [srv EXCEPT !.stop = "server",
                   !.http = IF @ = "listening" THEN "closed" ELSE @]

\* transport.close() has completed: stop() drops the transport and calls
\* server.close()
StopTransportClosed(s) ==
  /\ s \in DOMAIN servers
  /\ servers[s].stop = "transport"
  /\ servers' = [servers EXCEPT ![s].transport = FALSE, ![s].stop = "server",
                   ![s].http = IF @ = "listening" THEN "closed" ELSE @]
  /\ UNCHANGED <<mcpServer, serverState, shutdownImmediates, activation,
                 restart>>
  /\ UNCHANGED <<taskVars, debugVars, envVars>>

\* the callback of server.close(): the promise of stop() resolves, and a
\* handleRestart call suspended at `await mcpServer.stop()` continues
StopServerClosed(s) ==
  /\ s \in DOMAIN servers
  /\ servers[s].stop = "server"
  /\ servers' = [servers EXCEPT ![s].stop = "done"]
  /\ IF restart = [pc |-> "stopping", server |-> s]
     THEN /\ mcpServer' = NoServer
          /\ serverState' = "stopped"
          /\ restart' = [pc |-> "sleeping"]
     ELSE UNCHANGED <<mcpServer, serverState, restart>>
  /\ UNCHANGED <<shutdownImmediates, activation>>
  /\ UNCHANGED <<taskVars, debugVars, envVars>>

\* MCPServer.start() after one of its three awaits: the listen promise,
\* registerTools(), mcpServer.connect(transport); each resolves or rejects
start(srv, ok) ==
  IF ~ok
  THEN [srv EXCEPT !.start = "rejected",
                   !.http = IF srv.start = "listen" THEN "failed" ELSE @]
  ELSE IF srv.start = "listen"
  THEN [srv EXCEPT !.start = "registerTools",
                   !.http = IF srv.stop = "none" THEN "listening" ELSE "closed"]
  ELSE IF srv.start = "registerTools"
  THEN [srv EXCEPT !.start = "connect", !.transport = TRUE]
  ELSE [srv EXCEPT !.start = "resolved"]

\* start() goes on to its next await
StartContinue(s) ==
  /\ s \in DOMAIN servers
  /\ servers[s].start \in {"listen", "registerTools"}
  /\ servers' = [servers EXCEPT ![s] = start(@, TRUE)]
  /\ UNCHANGED <<mcpServer, serverState, shutdownImmediates, activation,
                 restart>>
  /\ UNCHANGED <<taskVars, debugVars, envVars>>

\* enableServer up to `await mcpServer.start()`
enableServer ==
  IF mcpServer # NoServer
  THEN UNCHANGED <<mcpServer, serverState, servers>>
  ELSE /\ mcpServer' = Cardinality(DOMAIN servers) + 1
       /\ servers' = Put(servers, Cardinality(DOMAIN servers) + 1, NewServer)
       /\ UNCHANGED serverState

\* start() returns or throws, and enableServer goes on after
\* `await mcpServer.start()`: the statement after the await, or the catch
\* block
EnableServerResume(s, ok) ==
  /\ s \in DOMAIN servers
  /\ servers[s].awaited
  /\ servers[s].start \in {"listen", "registerTools", "connect"}
  /\ ok => servers[s].start = "connect"
  /\ servers' = [servers EXCEPT ![s] = [start(@, ok) EXCEPT !.awaited = FALSE]]
  /\ IF ok
     THEN /\ serverState' = "running"
          /\ UNCHANGED mcpServer
     ELSE /\ serverState' = "stopped"
          /\ mcpServer' = NoServer
  /\ UNCHANGED <<shutdownImmediates, activation, restart>>
  /\ UNCHANGED <<taskVars, debugVars, envVars>>

\* the extension may create another MCPServer object
CanEnable == mcpServer # NoServer \/ Cardinality(DOMAIN servers) < MaxServers

\* initializeServer after `await checkServerOwnership(currentPort)`
initializeServer(ownership) ==
  /\ activation = "activating"
  /\ CanEnable
  /\ activation' = "active"
  /\ IF ownership = "free" THEN enableServer
     ELSE /\ serverState' = IF ownership = "ours" THEN "deferred" ELSE "stopped"
          /\ UNCHANGED <<mcpServer, servers>>
  /\ UNCHANGED <<shutdownImmediates, restart>>
  /\ UNCHANGED <<taskVars, debugVars, envVars>>

\* the command ignition-mcp.takeover, from `await enableServer()` on
handleTakeover ==
  /\ activation \in {"activating", "active"}
  /\ CanEnable
  /\ enableServer
  /\ UNCHANGED <<shutdownImmediates, activation, restart>>
  /\ UNCHANGED <<taskVars, debugVars, envVars>>

\* the command ignition-mcp.restart up to its first await
RestartBegin ==
  /\ activation \in {"activating", "active"}
  /\ restart = Idle
  /\ IF mcpServer # NoServer
     THEN /\ servers' = [servers EXCEPT ![mcpServer] = stop(@)]
          /\ restart' = [pc |-> "stopping", server |-> mcpServer]
     ELSE /\ restart' = [pc |-> "sleeping"]
          /\ UNCHANGED servers
  /\ UNCHANGED <<mcpServer, serverState, shutdownImmediates, activation>>
  /\ UNCHANGED <<taskVars, debugVars, envVars>>

\* handleRestart after `await sleep(100)`
RestartEnable ==
  /\ restart.pc = "sleeping"
  /\ CanEnable
  /\ enableServer
  /\ restart' = Idle
  /\ UNCHANGED <<shutdownImmediates, activation>>
  /\ UNCHANGED <<taskVars, debugVars, envVars>>

\* MCPServer.handleShutdown: POST /shutdown reaches a listening server
handleShutdown(s, requester) ==
  /\ s \in DOMAIN servers
  /\ servers[s].http = "listening"
  /\ shutdownImmediates' =
       IF requester = "ignition-mcp"
       THEN shutdownImmediates \cup {s} ELSE shutdownImmediates
  /\ UNCHANGED <<mcpServer, serverState, servers, activation, restart>>
  /\ UNCHANGED <<taskVars, debugVars, envVars>>

\* the setImmediate callback of handleShutdown runs handleShutdownRequested
handleShutdownRequested(s) ==
  /\ s \in shutdownImmediates
  /\ shutdownImmediates' = shutdownImmediates \ {s}
  /\ IF mcpServer # NoServer
     THEN /\ servers' = [servers EXCEPT ![mcpServer] = stop(@)]
          /\ mcpServer' = NoServer
     ELSE UNCHANGED <<servers, mcpServer>>
  /\ serverState' = "deferred"
  /\ UNCHANGED <<activation, restart>>
  /\ UNCHANGED <<taskVars, debugVars, envVars>>

deactivate ==
  /\ activation \in {"activating", "active"}
  /\ activation' = "deactivated"
  /\ IF mcpServer # NoServer
     THEN /\ servers' = [servers EXCEPT ![mcpServer] = stop(@)]
          /\ mcpServer' = NoServer
     ELSE UNCHANGED <<servers, mcpServer>>
  /\ UNCHANGED <<serverState, shutdownImmediates, restart>>
  /\ UNCHANGED <<taskVars, debugVars, envVars>>

\* ------------------------------------------------------ specifications
\* What every task specification shares: the process, the notifications,
\* cancelTask and the callers' reads of returned values.
LifecycleNext ==
  \/ Consume
  \/ RunTaskNotFound
  \/ \E executionId \in ExecIds : RunTaskFinish(executionId)
  \/ \E executionId \in ExecIds : RunTaskReject(executionId)
  \/ \E executionId \in ExecIds : ProcOpen(executionId)
  \/ \E executionId \in ExecIds, exitFollows \in BOOLEAN :
       PtyError(executionId, exitFollows)
  \/ \E executionId \in ExecIds, code \in ExitCodes : PtyExit(executionId, code)
  \/ \E executionId \in ExecIds : PtyClose(executionId)
  \/ \E executionId \in ExecIds, exitCode \in {Undef, Num(0), Num(1)} :
       ShellExit(executionId, exitCode)
  \/ \E executionId \in ExecIds : \E execution \in ObjectsOf(executionId) :
       NotifyProcessEnded(executionId, execution)
  \/ \E executionId \in ExecIds : \E execution \in ObjectsOf(executionId) :
       NotifyEnded(executionId, execution)
  \/ \E taskName \in TaskNames, exitCode \in {Undef, Num(0), Num(1)} :
       ForeignProcessEnded(taskName, exitCode)
  \/ \E taskName \in TaskNames : ForeignEnded(taskName)
  \/ \E executionId \in ReturnedIds \cup {UnknownId} : cancelTask(executionId)

\* SpecTask: up to MaxExec concurrent executions of either mode that print
\* nothing and exit normally, default output limit, a clock that stands
\* still.
TaskNext ==
  \/ Consume
  \/ \E taskName \in TaskNames, interactive \in BOOLEAN :
       RunTaskBegin(taskName, Undef, interactive)
  \/ \E executionId \in ExecIds : RunTaskFinish(executionId)
  \/ \E executionId \in ExecIds : ProcOpen(executionId)
  \/ \E executionId \in ExecIds, code \in ExitCodes : PtyExit(executionId, code)
  \/ \E executionId \in ExecIds : PtyClose(executionId)
  \/ \E executionId \in ExecIds, exitCode \in {Num(0), Num(1)} :
       ShellExit(executionId, exitCode)
  \/ \E executionId \in ExecIds : \E execution \in ObjectsOf(executionId) :
       NotifyProcessEnded(executionId, execution)
  \/ \E executionId \in ExecIds : \E execution \in ObjectsOf(executionId) :
       NotifyEnded(executionId, execution)
  \/ \E executionId \in ReturnedIds : cancelTask(executionId)

TaskInitDefault ==
  /\ TaskInit /\ DebugInit /\ ExtensionInit
  /\ configOutputLimit = Num(DefaultOutputLimit)

SpecTask == TaskInitDefault /\ [][TaskNext]_vars

\* SpecAwait: MaxSolo executions that print nothing, the clock and awaitTask.
AwaitNext ==
  \/ LifecycleNext
  \/ Tick
  \/ /\ Cardinality(DOMAIN executions) < MaxSolo
     /\ \E interactive \in BOOLEAN : RunTaskBegin("build", Undef, interactive)
  \/ \E executionId \in ReturnedIds \cup {UnknownId},
        timeoutMs \in AwaitTimeouts :
       awaitTask(executionId, timeoutMs)
  \/ AwaitPoll
  \/ AwaitReturn

SpecAwait == TaskInitDefault /\ [][AwaitNext]_vars

\* the clock passes a timer's due time only after the timer has fired: the
\* event loop runs the callback of setTimeout when it is due
TimelyTick ==
  /\ awaiter.pc = "polling" => now < awaiter.due
  /\ Tick

\* awaitTask called while the modelled clock can still reach its deadline
AwaitInTime(executionId, timeoutMs) ==
  /\ timeoutMs # Undef
  /\ now + timeoutMs.val + PollInterval <= MaxTicks * PollInterval
  /\ awaitTask(executionId, timeoutMs)

\* SpecAwaitLive: MaxSolo executions that exit normally or are cancelled,
\* awaitTask with a finite timeout, timers that fire when due and a clock
\* that keeps running.
AwaitLiveNext ==
  \/ Consume
  \/ /\ Cardinality(DOMAIN executions) < MaxSolo
     /\ \E interactive \in BOOLEAN : RunTaskBegin("build", Undef, interactive)
  \/ \E executionId \in ExecIds : RunTaskFinish(executionId)
  \/ \E executionId \in ExecIds : ProcOpen(executionId)
  \/ \E executionId \in ExecIds, code \in ExitCodes : PtyExit(executionId, code)
  \/ \E executionId \in ExecIds : PtyClose(executionId)
  \/ \E executionId \in ExecIds, exitCode \in {Num(0), Num(1)} :
       ShellExit(executionId, exitCode)
  \/ \E executionId \in ExecIds :
       NotifyProcessEnded(executionId, StoredObj(executionId))
  \/ \E executionId \in ExecIds :
       NotifyEnded(executionId, StoredObj(executionId))
  \/ \E executionId \in ReturnedIds : cancelTask(executionId)
  \/ TimelyTick
  \/ \E executionId \in ReturnedIds \cup {UnknownId},
        timeoutMs \in AwaitTimeouts :
       AwaitInTime(executionId, timeoutMs)
  \/ AwaitPoll
  \/ AwaitReturn

SpecAwaitLive ==
  /\ TaskInitDefault
  /\ [][AwaitLiveNext]_vars
  /\ WF_vars(AwaitPoll)
  /\ WF_vars(TimelyTick)

\* SpecOutput: MaxSolo executions, every output limit and every chunking.
OutputNext ==
  \/ LifecycleNext
  \/ /\ Cardinality(DOMAIN executions) < MaxSolo
     /\ \E outputLimit \in LimitOptions, interactive \in BOOLEAN :
          RunTaskBegin("build", outputLimit, interactive)
  \/ \E executionId \in ExecIds, chunk \in Chunks : PtyData(executionId, chunk)

OutputInit == TaskInit /\ DebugInit /\ ExtensionInit

SpecOutput == OutputInit /\ [][OutputNext]_vars

\* sessions VS Code has created so far
Created == {id \in SessionIds : adapter[id] # "none"}

\* SpecDebug: MaxSolo sessions and every protocol event with every body.
DebugNext ==
  \/ /\ Cardinality(Created) < MaxSolo
     /\ \E sessionId \in SessionIds : SessionCreate(sessionId, FALSE)
  \/ \E sessionId \in SessionIds : onSessionStarted(sessionId)
  \/ \E sessionId \in SessionIds : onSessionTerminated(sessionId, NoSession)
  \/ \E sessionId \in SessionIds, event \in EventNames \ {"output"} :
       \E body \in BodiesOf(event) : DebugEvent(sessionId, event, body)
  \/ \E sessionId \in SessionIds, body \in {NoBody, Body(Undef, Undef, Undef, Undef, Str(<<"a">>))} :
       DebugEvent(sessionId, "output", body)
  \/ Tick

DebugInitAll == TaskInitDefault

SpecDebug == DebugInitAll /\ [][DebugNext]_vars

\* SpecDebugOutput: MaxSolo sessions, startDebug with every output limit,
\* and every chunking of the output events.
DebugOutputNext ==
  \/ /\ Cardinality(Created) < MaxSolo
     /\ \E sessionId \in SessionIds, forCall \in BOOLEAN :
          SessionCreate(sessionId, forCall)
  \/ \E sessionId \in SessionIds : onSessionStarted(sessionId)
  \/ \E sessionId \in SessionIds : onSessionTerminated(sessionId, NoSession)
  \/ \E sessionId \in SessionIds, body \in OutputBodies \cup {NoBody} :
       DebugEvent(sessionId, "output", body)
  \/ \E sessionId \in SessionIds, event \in {"initialized", "terminated"} :
       DebugEvent(sessionId, event, PlainBody)
  \/ StartDebugNotFound
  \/ \E console \in Consoles, preserveConsole \in BOOLEAN,
        outputLimit \in LimitOptions :
       StartDebugBegin(console, preserveConsole, outputLimit)
  \/ \E started \in BOOLEAN : StartDebugFinish(started)
  \/ StartDebugReturn

DebugOutputInit == TaskInit /\ DebugInit /\ ExtensionInit

SpecDebugOutput == DebugOutputInit /\ [][DebugOutputNext]_vars

\* SpecInspect: MaxSessions sessions, the events that drive the state
\* machine, and the four inspection operations.
InspectNext ==
  \/ \E sessionId \in SessionIds : SessionCreate(sessionId, FALSE)
  \/ \E sessionId \in SessionIds : onSessionStarted(sessionId)
  \/ \E sessionId \in SessionIds, nextActive \in SessionIds \cup {NoSession} :
       onSessionTerminated(sessionId, nextActive)
  \/ \E sessionId \in SessionIds : FocusSession(sessionId)
  \/ \E sessionId \in SessionIds,
        event \in {"initialized", "continued", "terminated"} :
       DebugEvent(sessionId, event, PlainBody)
  \/ \E sessionId \in SessionIds, threadId \in ThreadIdOptions :
       DebugEvent(sessionId, "stopped",
                        Body(Str("breakpoint"), threadId, Undef, Undef, Undef))
  \/ \E op \in InspectOps, sessionId \in SessionIds \cup {NoSession},
        arg \in ThreadIdOptions :
       InspectCall(op, sessionId, arg)
  \/ \E ok \in BOOLEAN, n \in 0..MaxScopes : InspectRespond(ok, n)
  \/ InspectReturn

InspectInit == TaskInitDefault

SpecInspect == InspectInit /\ [][InspectNext]_vars

\* SpecStop: MaxSessions sessions that start, stop at breakpoints, change
\* focus and terminate, and stopDebug with and without a session id.
StopNext ==
  \/ \E sessionId \in SessionIds : SessionCreate(sessionId, FALSE)
  \/ \E sessionId \in SessionIds : onSessionStarted(sessionId)
  \/ \E sessionId \in SessionIds, nextActive \in SessionIds \cup {NoSession} :
       onSessionTerminated(sessionId, nextActive)
  \/ \E sessionId \in SessionIds : FocusSession(sessionId)
  \/ \E sessionId \in SessionIds :
       DebugEvent(sessionId, "stopped",
                        Body(Str("breakpoint"), Num(1), Undef, Undef, Undef))
  \/ \E sessionId \in SessionIds \cup {NoSession} : stopDebug(sessionId)
  \/ \E ok \in BOOLEAN : StopDebugRespond(ok)
  \/ InspectReturn

StopInit == TaskInitDefault

SpecStop == StopInit /\ [][StopNext]_vars


\* SpecBreak: up to MaxBreakpoints breakpoints, added and removed through
\* addBreakpoint and removeBreakpoint, among function breakpoints of the user.
BreakNext ==
  \/ FunctionBreakpointAdded
  \/ \E file \in Files, line \in Lines, condition \in Conditions :
       addBreakpoint(file, line, condition)
  \/ \E file \in Files, line \in Lines : removeBreakpoint(file, line)
  \/ InspectReturn

BreakInit == TaskInitDefault

SpecBreak == BreakInit /\ [][BreakNext]_vars

\* SpecEvents: MaxSolo sessions and every message their adapters send, each
\* event with every body.
EventsNext ==
  \/ /\ Cardinality(Created) < MaxSolo
     /\ \E sessionId \in SessionIds : SessionCreate(sessionId, FALSE)
  \/ \E sessionId \in SessionIds : onSessionStarted(sessionId)
  \/ \E sessionId \in SessionIds : onSessionTerminated(sessionId, NoSession)
  \/ \E sessionId \in SessionIds, event \in EventNames \ {"output"} :
       \E body \in BodiesOf(event) :
         onDidSendMessage(sessionId, "event", event, body)
  \/ \E sessionId \in SessionIds :
       onDidSendMessage(sessionId, "response", "", PlainBody)

EventsInit == TaskInitDefault

SpecEvents == EventsInit /\ [][EventsNext]_vars

\* SpecResume: MaxSolo sessions that stop and resume, the messages of their
\* adapters, and getStackTrace.
ResumeNext ==
  \/ /\ Cardinality(Created) < MaxSolo
     /\ \E sessionId \in SessionIds : SessionCreate(sessionId, FALSE)
  \/ \E sessionId \in SessionIds : onSessionStarted(sessionId)
  \/ \E sessionId \in SessionIds : onSessionTerminated(sessionId, NoSession)
  \/ \E sessionId \in SessionIds,
        event \in {"initialized", "continued", "terminated"} :
       \E body \in BodiesOf(event) :
         onDidSendMessage(sessionId, "event", event, body)
  \/ \E sessionId \in SessionIds, threadId \in ThreadIdOptions :
       onDidSendMessage(sessionId, "event", "stopped",
                        Body(Str("breakpoint"), threadId, Undef, Undef, Undef))
  \/ \E sessionId \in SessionIds \cup {NoSession} :
       InspectCall("getStackTrace", sessionId, Undef)
  \/ \E ok \in BOOLEAN, n \in 0..MaxScopes : InspectRespond(ok, n)
  \/ InspectReturn

ResumeInit == TaskInitDefault

SpecResume == ResumeInit /\ [][ResumeNext]_vars

\* SpecExtension: the extension's activation, its commands, MaxServers
\* server objects with the steps of start() and stop(), and shutdown
\* requests from other windows.
ExtensionNext ==
  \/ \E ownership \in Ownerships : initializeServer(ownership)
  \/ handleTakeover
  \/ RestartBegin
  \/ RestartEnable
  \/ \E s \in ServerIds : StartContinue(s)
  \/ \E s \in ServerIds, ok \in BOOLEAN : EnableServerResume(s, ok)
  \/ \E s \in ServerIds, requester \in Requesters : handleShutdown(s, requester)
  \/ \E s \in ServerIds : handleShutdownRequested(s)
  \/ \E s \in ServerIds : StopTransportClosed(s)
  \/ \E s \in ServerIds : StopServerClosed(s)
  \/ deactivate

ExtensionInitAll == TaskInitDefault

SpecExtension == ExtensionInitAll /\ [][ExtensionNext]_vars

\* ---------------------------------------------------------------------
\* Properties of task executions

TerminalStatuses == {"completed", "failed", "cancelled"}

\* C1: a task execution's status is monotone: once it is completed, failed
\* or cancelled, no later step (exit callback, task-ended or process-ended
\* notification, cancelTask) changes it.
C1_StatusMonotone ==
  [][\A id \in DOMAIN executions :
       executions[id].status \in TerminalStatuses
         => executions'[id].status = executions[id].status]_vars

\* a step that is a call of cancelTask
CancelStep == ret = NoRet /\ ret'.op = "cancelTask"

\* C2: cancelTask(id) succeeds exactly when the execution's status is
\* running, and then the status becomes cancelled with endTime set; on a
\* settled execution it fails with 'Task is not running', on an unknown id
\* with 'Execution not found', and a failing call changes no record.
C2_CancelExactlyWhenRunning ==
  [][CancelStep =>
       LET id == ret'.id
           running == id \in DOMAIN executions
                        /\ executions[id].status = "running"
       IN /\ ret'.success <=> running
          /\ ret'.success =>
               /\ executions'[id].status = "cancelled"
               /\ executions'[id].endTime = Num(now)
          /\ ~ret'.success =>
               /\ executions' = executions
               /\ ret'.error = IF id \in DOMAIN executions
                               THEN "Task is not running"
                               ELSE "Execution not found"]_vars

\* C3: the task-ended and the process-ended notification of one execution
\* may arrive in either order; when the second of them has been delivered
\* the exitCode is the code the process-ended notification carried, and a
\* status the first one set is not overwritten by the second.
C3_EitherOrder ==
  [][\A id \in DOMAIN executions :
       LET one == proc[id].processEndFired # proc[id].endFired
           both == proc'[id].processEndFired /\ proc'[id].endFired
       IN (one /\ both) =>
            /\ executions'[id].exitCode = proc'[id].closeCode
            /\ executions[id].status # "running"
                 => executions'[id].status = executions[id].status]_vars

\* a step in which awaitTask's promise resolves
AwaitResolves == awaiter.pc # "done" /\ awaiter'.pc = "done"

\* a step in which awaitTask checks the status and goes on waiting
AwaitWaits == awaiter'.pc = "polling" /\ awaiter' # awaiter

\* C5: awaitTask returns the settled result at once when the execution is
\* already settled at the call, and at every later check it returns the
\* settled result, never the timeout result, when the execution has
\* settled by then: it goes on waiting or reports a timeout only while the
\* status is still running.
C5_AwaitReturnsSettled ==
  [][/\ AwaitResolves =>
          LET r == awaiter'.result IN
          r.executionId \in DOMAIN executions =>
            IF executions[r.executionId].status # "running"
            THEN r.kind = "settled" /\ r = SettledResult(r.executionId)
            ELSE r.kind = "timeout"
     /\ AwaitWaits =>
          executions[awaiter'.executionId].status = "running"]_vars

\* awaitTask has returned the settled result of an execution that settled
\* after the call started and within the timeout
C5_Witness ==
  /\ awaiter.pc = "done"
  /\ awaiter.result.kind = "settled"
  /\ executions[awaiter.result.executionId].endTime # Undef
  /\ executions[awaiter.result.executionId].endTime.val > awaiter.startTime
  /\ executions[awaiter.result.executionId].endTime.val - awaiter.startTime
       <= awaiter.timeout

\* the last two exit codes delivered to execution id are both 0
ExitZeroTwice(seen) ==
  /\ Len(seen) >= 2
  /\ seen[Len(seen)].code = Num(0)
  /\ seen[Len(seen) - 1].code = Num(0)

\* C6: delivering the process-exit event with code 0 a second time to an
\* execution settles nothing again: the second delivery leaves the
\* execution's status, exitCode and endTime as the first one left them.
C6_ExitDeliveredTwice ==
  [][\A id \in DOMAIN executions :
       (/\ Len(proc'[id].exitsSeen) = Len(proc[id].exitsSeen) + 1
        /\ ExitZeroTwice(proc'[id].exitsSeen))
         => executions'[id] = executions[id]]_vars

\* exit code 0 has reached an execution twice, the second time after the
\* clock had moved on from the endTime the first delivery stamped
C6_Witness ==
  \E id \in DOMAIN executions :
    /\ ExitZeroTwice(proc[id].exitsSeen)
    /\ executions[id].status = "completed"
    /\ executions[id].endTime.val
         < proc[id].exitsSeen[Len(proc[id].exitsSeen)].at

\* what the command of a capture execution has emitted so far
Emitted(id) == Join(proc[id].outputBuffer)

InspectStep == inspect = Idle /\ inspect' # Idle

\* C4: getStackTrace, getVariables, evaluate and continueExecution called
\* on a session whose state is not paused return an error and issue no
\* protocol request.
C4_NoRequestUnlessPaused ==
  [][InspectStep =>
       LET t == inspect'.targetId IN
       (t \in DOMAIN sessions /\ sessions[t].state # "paused") =>
         /\ inspect'.pc = "done"
         /\ ~inspect'.success
         /\ inspect'.error # ""
         /\ requests' = <<>>]_vars

\* an inspection operation on the active session, which is running, has
\* returned its error without a request
C4_Witness ==
  /\ inspect.pc = "done"
  /\ inspect.targetId \in DOMAIN sessions
  /\ inspect.targetId = activeDebugSession
  /\ sessions[inspect.targetId].state = "running"
  /\ inspect.error = "Session is not paused"
  /\ requests = <<>>

\* C7: terminated is absorbing: once a session's state is terminated no
\* later event changes it.
C7_TerminatedAbsorbing ==
  [][\A id \in DOMAIN sessions :
       sessions[id].state = "terminated"
         => sessions'[id].state = "terminated"]_vars

\* the state changes of the event table: initialized from initializing,
\* stopped from running or paused, continued from paused, exited and
\* terminated from anywhere
TableTransitions ==
  {<<"initializing", "running">>, <<"running", "paused">>,
   <<"paused", "running">>}
    \cup {<<from, "terminated">> :
            from \in {"initializing", "running", "paused"}}

\* C8: a session's state changes only along the transitions of the event
\* table; an event arriving in any other state leaves the state as it is.
C8_OnlyTableTransitions ==
  [][\A id \in DOMAIN sessions :
       sessions'[id].state # sessions[id].state
         => <<sessions[id].state, sessions'[id].state>>
              \in TableTransitions]_vars

\* C10: for every output buffer, of a task or of a debug session, with a
\* non-null capacity C, truncated is true exactly when the characters
\* offered to the buffer number more than C.
C10_TruncatedIffOverflow ==
  /\ \A id \in DOMAIN executions :
       LET limit == getOutputLimitForExecution(id) IN
       (proc[id].mode = "capture" /\ limit # Null) =>
         (getTaskOutput(id).truncated = TRUE
            <=> Len(Emitted(id)) > limit.val)
  /\ \A id \in DOMAIN sessions :
       LET limit == getOutputLimitForSession(id) IN
       (id \in DOMAIN sessionOutputs /\ limit # Null) =>
         ((id \in DOMAIN sessionOutputTruncated
             /\ sessionOutputTruncated[id] = TRUE)
            <=> offered[id] > limit.val)

\* C11: the accumulated length of a debug session's captured output never
\* exceeds the session's capacity (the override of its launch configuration
\* when there is one, otherwise the default), output events that arrive
\* before startDebug has returned included.
C11_DebugOutputWithinCapacity ==
  \A id \in DOMAIN outputLengths :
    LET limit == getOutputLimitForSession(id) IN
    limit # Null =>
      /\ outputLengths[id] <= limit.val
      /\ id \in DOMAIN sessionOutputs
           => Len(Join(sessionOutputs[id])) <= limit.val

\* C20: a successful startDebug returns the identifier of the session it
\* started, and that identifier is a key of the session registry.
C20_StartDebugReturnsItsSession ==
  (startCall.pc = "done" /\ startCall.success) =>
    /\ startCall.sessionId = startCall.launched
    /\ startCall.sessionId \in DOMAIN sessions

\* C12: after cancelTask(id) has returned success no further output is
\* attributed to id: while the execution is marked cancelled the output
\* stored for it does not change, whatever the process still emits.
C12_NoOutputAfterCancel ==
  [][\A id \in DOMAIN executions :
       (executions[id].status = "cancelled" /\ id \in DOMAIN outputs)
         => (id \in DOMAIN outputs' /\ outputs'[id] = outputs[id])]_vars

\* C13: awaitTask changes no registry state, and when it returns the
\* timeout result the execution is still tracked with status running, its
\* handle is still registered and has not been terminated, and the result
\* carries status running.
C13_AwaitChangesNothing ==
  [][awaiter' # awaiter =>
       /\ UNCHANGED <<executions, outputs, outputTruncated, outputLimits,
                      activeExecutions, executionToId,
                      interactiveExecutionIds, proc>>
       /\ (AwaitResolves /\ awaiter'.result.kind = "timeout") =>
            LET id == awaiter'.result.executionId IN
            /\ id \in DOMAIN executions'
            /\ executions'[id].status = "running"
            /\ id \in DOMAIN activeExecutions'
            /\ ~proc'[id].killed
            /\ awaiter'.result.status = "running"]_vars

\* awaitTask has returned the timeout result for an execution that is still
\* running and registered
C13_Witness ==
  /\ awaiter.pc = "done"
  /\ awaiter.result.kind = "timeout"
  /\ executions[awaiter.result.executionId].status = "running"
  /\ awaiter.result.executionId \in DOMAIN activeExecutions
  /\ now - awaiter.startTime > awaiter.timeout

\* C15: when the process of a running capture execution exits with code c
\* the execution settles to completed if c = 0 and to failed otherwise,
\* with exitCode c; awaitTask returning its settled result reports success
\* exactly when the status is completed, with that status and exit code.
C15_ExitCodeSettles ==
  [][/\ \A id \in DOMAIN executions :
          (/\ proc[id].mode = "capture"
           /\ proc[id].state = "alive"
           /\ proc'[id].state = "exited"
           /\ executions[id].status = "running")
            => /\ executions'[id].exitCode = proc'[id].exitCode
               /\ executions'[id].status =
                    IF proc'[id].exitCode = Num(0)
                    THEN "completed" ELSE "failed"
     /\ (AwaitResolves /\ awaiter'.result.kind = "settled") =>
          LET r == awaiter'.result
              info == executions[r.executionId]
          IN /\ r.success <=> (info.status = "completed")
             /\ r.status = info.status
             /\ r.exitCode = info.exitCode]_vars

\* awaitTask has returned success=false, status=failed, exitCode=1 for a
\* capture execution whose process exited with code 1
C15_Witness ==
  /\ awaiter.pc = "done"
  /\ awaiter.result.kind = "settled"
  /\ proc[awaiter.result.executionId].mode = "capture"
  /\ proc[awaiter.result.executionId].exitCode = Num(1)
  /\ ~awaiter.result.success
  /\ awaiter.result.status = "failed"
  /\ awaiter.result.exitCode = Num(1)

\* C14: awaitTask always returns: a call that is waiting eventually
\* returns, and the timeout result is returned no later than one poll
\* interval after the timeout has elapsed.
C14_AwaitReturnsInTime ==
  /\ [][(AwaitResolves /\ awaiter'.result.kind = "timeout")
          => now <= awaiter'.startTime + awaiter'.timeout + PollInterval]_vars
  /\ [](awaiter.pc = "polling"
          => now <= awaiter.startTime + awaiter.timeout + PollInterval)
  /\ (awaiter.pc = "polling") ~> (awaiter.pc = "done")

\* awaitTask has returned the timeout result for an execution that never
\* settled, exactly one poll interval after its timeout elapsed
C14_Witness ==
  /\ awaiter.pc = "done"
  /\ awaiter.result.kind = "timeout"
  /\ awaiter.timeout = PollInterval
  /\ executions[awaiter.result.executionId].status = "running"
  /\ now = awaiter.startTime + awaiter.timeout + PollInterval

\* C16: the record of an execution stays in the registry with the task name
\* and start time it was created with, whatever notification, cancel, await
\* or tick of the clock follows, and getTaskStatus finds every id that
\* runTask has returned.
C16_RecordsKept ==
  /\ [][\A id \in DOMAIN executions :
          /\ id \in DOMAIN executions'
          /\ executions'[id].taskName = executions[id].taskName
          /\ executions'[id].startTime = executions[id].startTime]_vars
  /\ [](\A id \in ReturnedIds :
          /\ getTaskStatus(id).found
          /\ getTaskStatus(id).execution = executions[id])

\* an execution that was cancelled and whose two end notifications have
\* both been handled is still found, later than it started
C16_Witness ==
  \E id \in ReturnedIds :
    /\ proc[id].endFired
    /\ proc[id].processEndFired
    /\ executions[id].status = "cancelled"
    /\ getTaskStatus(id).found
    /\ executions[id].startTime < now

\* calls the pty of execution id has made to its exit callback: one from its
\* 'error' handler, one from its 'exit' handler
ExitCallbackCalls(id) ==
  (IF proc[id].errored THEN 1 ELSE 0)
    + (IF proc[id].mode = "capture" /\ proc[id].exitCode # Undef THEN 1 ELSE 0)

\* C17: the pty of a spawned child calls its exit callback at most once,
\* with the exit code of the child or with -1.
C17_ExitCallbackAtMostOnce ==
  \A id \in DOMAIN proc : ExitCallbackCalls(id) <= 1

\* C18: an inspection operation acts on the session it targets, the one
\* named by the explicit id or else the active one: when that session is
\* known, paused and still running under its adapter the operation does not
\* fail for want of a session, whichever session is the active one; and it
\* fails with 'No active debug session' only when no session is active.
C18_ActsOnNamedSession ==
  [][InspectStep =>
       LET t == inspect'.targetId
           failed == inspect'.pc = "done" /\ ~inspect'.success
       IN
       /\ (/\ t \in DOMAIN sessions
           /\ sessions[t].state = "paused"
           /\ adapter[t] = "started"
           /\ failed)
            => inspect'.error \notin {"Debug session not found",
                                     "No active debug session"}
       /\ (failed /\ inspect'.error = "No active debug session")
            => activeDebugSession = NoSession]_vars

\* a step that is a call of stopDebug
StopStep == inspect = Idle /\ inspect' # Idle /\ inspect'.op = "stopDebug"

\* the calls of stopDebugging made for session id by the current stopDebug
Stops(reqs, id) ==
  \E k \in 1..Len(reqs) :
    reqs[k].command = "stopDebugging" /\ reqs[k].sessionId = id

\* C19: stopDebug(id) asks VS Code to stop session id whenever id is a
\* session of the registry that is still active, and answers not found only
\* for an id with no active record; without an id it asks VS Code to stop
\* the currently active session.
C19_StopsNamedSession ==
  [][StopStep =>
       LET t == inspect'.targetId IN
       /\ (t # NoSession /\ t \in DOMAIN sessions
             /\ sessions[t].status = "active")
            => inspect'.pc = "wait" /\ Stops(requests', t)
       /\ (inspect'.pc = "done" /\ inspect'.error = StopNotFound)
            => (t \notin DOMAIN sessions \/ sessions[t].status # "active")
       /\ (t = NoSession /\ activeDebugSession # NoSession)
            => inspect'.pc = "wait" /\ Stops(requests', activeDebugSession)]_vars

\* C21: a successful startDebug has passed internalConsole in place of
\* integratedTerminal or externalTerminal exactly when the configuration
\* does not set preserveConsole, returns consoleOverridden = true exactly in
\* that case, and the record of the session it started then carries the
\* override.
C21_ConsoleOverrideRecorded ==
  (startCall.pc = "done" /\ startCall.success) =>
    LET overrides ==
          /\ startCall.originalConsole
               \in {"integratedTerminal", "externalTerminal"}
          /\ ~startCall.preserveConsole
    IN
    /\ startCall.consoleOverridden = overrides
    /\ startCall.console = IF overrides THEN "internalConsole"
                           ELSE startCall.originalConsole
    /\ overrides =>
         /\ startCall.launched \in DOMAIN sessions
         /\ sessions[startCall.launched].consoleOverridden = Bool(TRUE)

\* a step that is a call of addBreakpoint / of removeBreakpoint
AddStep == inspect = Idle /\ inspect' # Idle /\ inspect'.op = "addBreakpoint"
RemoveStep ==
  inspect = Idle /\ inspect' # Idle /\ inspect'.op = "removeBreakpoint"

\* the breakpoints a listing shows at file and 1-based line
ListedAt(listing, file, line) ==
  SelectSeq(listing, LAMBDA b : b.file = file /\ b.line = line)

\* C22: addBreakpoint is idempotent on the (file, line) key: after every
\* successful addBreakpoint, the first or a repeated one, listBreakpoints
\* has exactly one breakpoint at the key, with the condition of that call.
C22_AddIdempotent ==
  [][(AddStep /\ inspect'.success) =>
       LET listed == ListedAt(listBreakpoints', fsPath(inspect'.file),
                              inspect'.line)
       IN /\ Len(listed) = 1
          /\ listed[1].condition = inspect'.condition]_vars

ContinueStep ==
  /\ inspect' # inspect
  /\ \/ inspect' # Idle /\ inspect'.op = "continueExecution"
     \/ inspect # Idle /\ inspect.op = "continueExecution" /\ inspect' # Idle

\* C24: continueExecution writes nothing to the session records: no step of
\* it changes a session's state, stopReason or stoppedThreadId, so the
\* session it resumed stays paused until an event changes its record.
C24_ContinueWritesNothing ==
  [][ContinueStep => sessions' = sessions]_vars

\* continueExecution has succeeded, its continue request was sent, and the
\* session is still recorded as paused with its stop reason and thread
C24_Witness ==
  /\ inspect.pc = "done"
  /\ inspect.op = "continueExecution"
  /\ inspect.success
  /\ Len(requests) = 1
  /\ requests[1].command = "continue"
  /\ sessions[inspect.targetId].state = "paused"
  /\ sessions[inspect.targetId].stopReason # Undef
  /\ sessions[inspect.targetId].stoppedThreadId # Undef

\* the step in which the tracker of a tracked session receives event `event`
Receives(id, event) ==
  /\ received'.seq # received.seq
  /\ received'.type = "event"
  /\ received'.event = event
  /\ received'.from = id
  /\ id \in DOMAIN sessions

\* C25: every initialized event received for a tracked session in state
\* initializing sets its state to running, with or without a body.
C25_InitializedSetsRunning ==
  [][\A id \in SessionIds :
       (Receives(id, "initialized") /\ sessions[id].state = "initializing")
         => sessions'[id].state = "running"]_vars

\* C26: every exited or terminated event received for a tracked session
\* sets its state to terminated, from any state, with or without a body.
C26_ExitedSetsTerminated ==
  [][\A id \in SessionIds :
       (Receives(id, "exited") \/ Receives(id, "terminated"))
         => sessions'[id].state = "terminated"]_vars

\* C27: a stopped event with its payload, received for a tracked session in
\* state running or paused, sets the state to paused and records the
\* payload's reason and thread id; when the reason is exception it also
\* records the exception's identifier (the payload's text, or 'unknown'
\* without one) and description.
C27_StoppedRecordsStop ==
  [][\A id \in SessionIds :
       (/\ Receives(id, "stopped")
        /\ received'.body.present
        /\ sessions[id].state \in {"running", "paused"})
         => LET body == received'.body
                info == sessions'[id]
            IN /\ info.state = "paused"
               /\ info.stopReason = body.reason
               /\ info.stoppedThreadId = body.threadId
               /\ body.reason = Str("exception") =>
                    /\ info.exceptionInfo.exceptionId =
                         (IF body.text = Undef THEN Str("unknown")
                          ELSE body.text)
                    /\ info.exceptionInfo.description = body.description]_vars

\* a session that was paused at a breakpoint has received a stopped event
\* for an exception on thread 1 and records it
C27_Witness ==
  \E id \in DOMAIN sessions :
    /\ received.type = "event"
    /\ received.event = "stopped"
    /\ received.from = id
    /\ received.body.present
    /\ received.body.reason = Str("exception")
    /\ received.before = "paused"
    /\ sessions[id].state = "paused"
    /\ sessions[id].stopReason = Str("exception")
    /\ sessions[id].stoppedThreadId = Num(1)
    /\ sessions[id].exceptionInfo # Undef
    /\ sessions[id].exceptionInfo.exceptionId = Str("E")
    /\ sessions[id].exceptionInfo.description = Str("d")

\* C28: a continued event with its payload, received for a paused session,
\* sets the state to running and clears the stop reason and the stopped
\* thread id; getStackTrace on a session that is not paused fails with the
\* not-paused error, and only a stopped event makes a session paused again.
C28_ContinuedResumes ==
  /\ [][\A id \in SessionIds :
          (/\ Receives(id, "continued")
           /\ received'.body.present
           /\ sessions[id].state = "paused")
            => /\ sessions'[id].state = "running"
               /\ sessions'[id].stopReason = Undef
               /\ sessions'[id].stoppedThreadId = Undef]_vars
  /\ [][(InspectStep /\ inspect'.op = "getStackTrace") =>
          LET t == inspect'.targetId IN
          (t \in DOMAIN sessions /\ sessions[t].state # "paused") =>
            /\ inspect'.pc = "done"
            /\ ~inspect'.success
            /\ inspect'.error = "Session is not paused"
            /\ requests' = <<>>]_vars
  /\ [][\A id \in DOMAIN sessions :
          (id \in DOMAIN sessions' /\ sessions[id].state # "paused"
             /\ sessions'[id].state = "paused")
            => Receives(id, "stopped")]_vars

\* getStackTrace has failed with the not-paused error on a session whose
\* last message was the continued event that resumed it from paused
C28_Witness ==
  /\ inspect.pc = "done"
  /\ inspect.op = "getStackTrace"
  /\ inspect.targetId \in DOMAIN sessions
  /\ inspect.error = "Session is not paused"
  /\ received.type = "event"
  /\ received.event = "continued"
  /\ received.from = inspect.targetId
  /\ received.before = "paused"
  /\ sessions[inspect.targetId].state = "running"
  /\ sessions[inspect.targetId].stopReason = Undef
  /\ sessions[inspect.targetId].stoppedThreadId = Undef

\* C29: getStackTrace on a paused session that is the active one, whose
\* last stopped event recorded thread id t (0 included), issues the
\* stackTrace request with threadId = t; it fails with 'No stopped thread ID
\* available' only when no thread id is recorded.
C29_StackTraceUsesThread ==
  [][(InspectStep /\ inspect'.op = "getStackTrace") =>
       LET t == inspect'.targetId IN
       (/\ t \in DOMAIN sessions
        /\ sessions[t].state = "paused"
        /\ t = activeDebugSession)
         => IF sessions[t].stoppedThreadId # Undef
            THEN /\ inspect'.pc = "wait"
                 /\ requests' = <<Request("stackTrace", t,
                                          sessions[t].stoppedThreadId)>>
            ELSE /\ inspect'.pc = "done"
                 /\ inspect'.error = "No stopped thread ID available"]_vars

\* every execution object a notification can carry
ExecutionObjects ==
  {ForeignObj} \cup {StoredObj(id) : id \in ExecIds}
               \cup {AliasObj(id) : id \in ExecIds}

\* the object is neither a key of the identity map nor a stored handle
Unmatched(execution) ==
  /\ execution \notin DOMAIN executionToId
  /\ \A id \in DOMAIN activeExecutions : activeExecutions[id] # execution

\* the running executions of task taskName that were started interactively
\* (an execution whose executeTask was rejected was never started)
RunningInteractive(taskName) ==
  {id \in DOMAIN executions :
     /\ executions[id].taskName = taskName
     /\ executions[id].status = "running"
     /\ proc[id].mode = "interactive"
     /\ proc[id].state # "none"}

\* C30: a notification whose execution object matches neither the identity
\* map nor a stored handle is attributed to a running execution of the same
\* task label that was started interactively, and to none when there is no
\* such execution; never to a settled or a capture-mode execution.
C30_FallbackByLabel ==
  \A execution \in ExecutionObjects, taskName \in TaskNames \cup {UnknownTask} :
    Unmatched(execution) =>
      IF RunningInteractive(taskName) = {}
      THEN findExecutionId(execution, taskName) = UnknownId
      ELSE findExecutionId(execution, taskName) \in RunningInteractive(taskName)

\* two running executions of one task, the older in capture mode and the
\* younger interactive: a notification with another object reference for
\* the younger one is attributed to it by its label
C30_Witness ==
  \E c, i \in DOMAIN executions :
    /\ c < i
    /\ executions[c].taskName = executions[i].taskName
    /\ executions[c].status = "running"
    /\ executions[i].status = "running"
    /\ proc[c].mode = "capture"
    /\ proc[i].mode = "interactive"
    /\ Unmatched(AliasObj(i))
    /\ findExecutionId(AliasObj(i), executions[i].taskName) = i

\* a step that handles a task-process-ended notification: the one of a
\* tracked execution, or one attributed to an execution by its label
ProcessEndedStep ==
  \/ \E id \in DOMAIN proc :
       /\ id \in DOMAIN proc'
       /\ ~proc[id].processEndFired
       /\ proc'[id].processEndFired
  \/ \E taskName \in TaskNames, exitCode \in {Undef, Num(0), Num(1)} :
       ForeignProcessEnded(taskName, exitCode)

\* C31: onTaskProcessEnded removes no bookkeeping entry: a step that
\* handles a task-process-ended notification leaves activeExecutions,
\* executionToId and interactiveExecutionIds unchanged.
C31_ProcessEndedKeepsBookkeeping ==
  [][ProcessEndedStep =>
       /\ activeExecutions' = activeExecutions
       /\ executionToId' = executionToId
       /\ interactiveExecutionIds' = interactiveExecutionIds]_vars

\* the process-ended notification of an interactive execution has settled
\* it, the task-ended notification is still to come, and the execution is
\* still in the three bookkeeping structures
C31_Witness ==
  \E id \in DOMAIN executions :
    /\ proc[id].processEndFired
    /\ ~proc[id].endFired
    /\ executions[id].status \in {"completed", "failed"}
    /\ id \in DOMAIN activeExecutions
    /\ activeExecutions[id] \in DOMAIN executionToId
    /\ id \in interactiveExecutionIds

\* C32: every id in activeExecutions belongs to an execution whose status
\* is running.
C32_ActiveAreRunning ==
  \A id \in DOMAIN activeExecutions :
    id \in DOMAIN executions /\ executions[id].status = "running"

\* a step that handles the task-ended or task-process-ended notification of
\* tracked execution id
NotificationOf(id) ==
  /\ id \in DOMAIN proc
  /\ id \in DOMAIN proc'
  /\ \/ ~proc[id].processEndFired /\ proc'[id].processEndFired
     \/ ~proc[id].endFired /\ proc'[id].endFired

\* a step that handles a notification for a task not started through runTask
ForeignNotification ==
  \/ \E taskName \in TaskNames, exitCode \in {Undef, Num(0), Num(1)} :
       ForeignProcessEnded(taskName, exitCode)
  \/ \E taskName \in TaskNames : ForeignEnded(taskName)

\* C33: a task-ended or task-process-ended notification changes only the
\* record of the execution whose process it reports, and a notification for
\* a task that was not started through runTask changes no record.
C33_NotificationSettlesItsOwn ==
  /\ [][\A id \in ExecIds :
          NotificationOf(id) =>
            \A other \in DOMAIN executions \ {id} :
              executions'[other] = executions[other]]_vars
  /\ [][ForeignNotification => executions' = executions]_vars

\* C34: a debug session whose status is terminated has state terminated.
C34_TerminatedStatusAndState ==
  \A id \in DOMAIN sessions :
    sessions[id].status = "terminated" => sessions[id].state = "terminated"

\* C36: a session whose state is not paused has no stop reason and no
\* stopped-thread id recorded.
C36_StopDataOnlyWhenPaused ==
  \A id \in DOMAIN sessions :
    sessions[id].state # "paused" =>
      /\ sessions[id].stopReason = Undef
      /\ sessions[id].stoppedThreadId = Undef

\* C37: a session record carries an exception descriptor only when its
\* current stop reason is exception.
C37_ExceptionInfoOnlyForException ==
  \A id \in DOMAIN sessions :
    sessions[id].exceptionInfo # Undef =>
      sessions[id].stopReason = Str("exception")

\* C35: every protocol request issued by one getVariables or evaluate call
\* is issued while the session's state is paused.
C35_RequestsWhilePaused ==
  (inspect # Idle /\ inspect.op \in {"getVariables", "evaluate"}) =>
    \A k \in DOMAIN requests : requests[k].state = "paused"

\* C38: an execution's status and exit code agree: completed implies the
\* exit code is 0 or not recorded, failed implies it is recorded and not 0.
C38_StatusAgreesWithExitCode ==
  \A id \in DOMAIN executions :
    /\ executions[id].status = "completed" =>
         executions[id].exitCode \in {Undef, Num(0)}
    /\ executions[id].status = "failed" =>
         /\ executions[id].exitCode # Undef
         /\ executions[id].exitCode # Num(0)

\* C39: an execution has an end timestamp exactly when its status is not
\* running.
C39_EndTimeIffSettled ==
  \A id \in DOMAIN executions :
    executions[id].endTime # Undef <=> executions[id].status # "running"

\* an execution that was cancelled, has its end timestamp, and whose two
\* end notifications have arrived since
C39_Witness ==
  \E id \in DOMAIN executions :
    /\ executions[id].status = "cancelled"
    /\ executions[id].endTime # Undef
    /\ proc[id].processEndFired
    /\ proc[id].endFired

\* ---------------------------------------------------------------------
\* Properties of the extension's server
\* ---------------------------------------------------------------------

\* C40: while the extension is activated, serverState = 'running' implies
\* that a server object is held (mcpServer is not null).
C40_RunningHoldsServer ==
  (activation # "deactivated" /\ serverState = "running") =>
    mcpServer # NoServer

============================================================================
